---- MODULE Spec2Model ----
(***************************************************************************)
(* Tenant lifecycle and membership reconciliation of leeforge/plugins      *)
(* (tenant/tenant/service.go), as a state machine over the stores the      *)
(* service writes: the tenant table, the tenant_user table, the role table *)
(* and the domain directory (core.DomainWriter); and the organization tree *)
(* of the ou plugin (ou/organization), over the organization table and the *)
(* organization_member table.                                              *)
(*                                                                         *)
(* Every action is one completed service call.  A call takes, besides its  *)
(* arguments, the place where a storage or collaborator call fails         *)
(* ("none" when every call succeeds).                                      *)
(***************************************************************************)
EXTENDS Integers, Sequences, FiniteSets, TLC

VARIABLES
    tenants,        \* tenant table: sequence of rows, id = position
    tenantUsers,    \* tenant_user table: sequence of rows, id = position
    domains,        \* domain directory: keys of type "tenant", DomainID = position
    domainMembers,  \* domain directory memberships: {<<DomainID, subject>>}
    roles,          \* role table: {<<ownerDomainID, code>>}
    orgs,           \* organization table: sequence of rows, id = position
    orgMembers,     \* organization_member table: sequence of rows
    inflight,       \* the calls in progress, by caller: position and local values
    services,       \* service registry of the host application: the keys registered
    plugins,        \* the plugin instances: the fields Enable fills in
    last,           \* the last completed call: arguments and result
    left            \* number of calls the run may still make

vars == <<left, inflight, tenants, tenantUsers, domains, domainMembers, roles, orgs,
          orgMembers, services, plugins, last>>

(***************************************************************************)
(* Bounds and inputs                                                       *)
(***************************************************************************)
MaxOps == 2
MaxCalls == 6
MaxGate == 3
MaxAdmin == 4
MaxOU == 4
MaxOURace == 5
MaxRace == 4
MaxCrash == 5
MaxPaged == 4
MaxPlugin == 6
MaxMember == 4

NoUser == "nil"
NilID == 0
Users == {"u1", "u2", "u3"}

\* u1 and u2 share a username, u2 and u3 share an email, u1 and u3 share nothing.
UserInfo(u) ==
    CASE u = "u1" -> [Username |-> "alice", Email |-> "a@x"]
      [] u = "u2" -> [Username |-> "alice", Email |-> "b@x"]
      [] OTHER    -> [Username |-> "bob",   Email |-> "b@x"]

\* Request strings are sequences of characters; " " is a white-space character.
RawCodes == {<<" ">>, <<"a">>, <<" ", "a">>, <<"b">>}
RawNames == {<<" ">>, <<"n">>, <<"n", " ">>}
Codes == {<<"a">>, <<"b">>, <<"c">>}
RoleArgs == {"", "editor"}
Actors == {NoUser, "u1", "u2"}
TenantIDs == 1..3

\* Parent references: none, white space only, a code, the text of an id.
ParentRefs == {<<>>, <<" ">>, <<"a">>, <<"b">>, <<"#", "1">>, <<"#", "2">>, <<"#", "3">>}

Nil == "nil"
ErrTenantNotFound     == "tenant not found"
ErrTenantCodeExists   == "tenant code already exists"
ErrInvalidTenant      == "invalid tenant data"
ErrMemberExists       == "user is already a member"
ErrMemberNotFound     == "membership not found"
ErrPlatformDomainOnly == "operation requires platform domain"
ErrParentTenantInvalid == "invalid parent tenant"

EventTenantCreated       == "tenant.created"
EventTenantUpdated       == "tenant.updated"
EventTenantDeleted       == "tenant.deleted"
EventTenantMemberAdded   == "tenant.member.added"
EventTenantMemberRemoved == "tenant.member.removed"

StatusActive == "active"

(***************************************************************************)
(* strings.TrimSpace                                                       *)
(***************************************************************************)
RECURSIVE TrimLeft(_)
TrimLeft(s) ==
    IF s = <<>> THEN s
    ELSE IF Head(s) = " " THEN TrimLeft(Tail(s)) ELSE s

RECURSIVE TrimRight(_)
TrimRight(s) ==
    IF s = <<>> THEN s
    ELSE IF s[Len(s)] = " " THEN TrimRight(SubSeq(s, 1, Len(s) - 1)) ELSE s

\* A request string taken as it is
TrimNothing(s) == s

TrimSpace(s) == TrimRight(TrimLeft(s))

(***************************************************************************)
(* The stores.  Every operation is a function of the stores it is called   *)
(* on; the actions below apply it to the current ones.                     *)
(***************************************************************************)
Stores(t, tu, d, dm, r) ==
    [tenants |-> t, tenantUsers |-> tu, domains |-> d, domainMembers |-> dm,
     roles |-> r]

Current == Stores(tenants, tenantUsers, domains, domainMembers, roles)

Min(S) == CHOOSE x \in S : \A y \in S : x <= y

\* s.client.Tenant.Get(ctx, id): the row's position, NilID when not found
TenantGet(s, id) == IF id \in 1..Len(s.tenants) THEN id ELSE NilID

\* The code column without its unique index: an insert never finds the code taken
TenantByCodeNotUnique(s, code) == NilID

\* Tenant.Query().Where(CodeEQ(code), DeletedAtIsNil()).Only(ctx); also the
\* unique index on the code column, which makes builder.Save fail
TenantByCode(s, code) ==
    LET S == {i \in 1..Len(s.tenants) :
                 s.tenants[i].code = code /\ ~s.tenants[i].deleted}
    IN IF S = {} THEN NilID ELSE Min(S)

\* The unique index on the code column at builder.Save.  Whether the index
\* covers soft-deleted rows is the schema's choice: a code that only a
\* soft-deleted tenant has is refused when fault = "codeIndex" and accepted
\* otherwise.
CodeTaken(s, code, fault) ==
    \/ TenantByCode(s, code) # NilID
    \/ /\ fault = "codeIndex"
       /\ \E i \in 1..Len(s.tenants) : s.tenants[i].code = code

\* The query by id without its DeletedAtIsNil() filter
TenantLiveOrDeleted(s, id) == IF id \in 1..Len(s.tenants) THEN id ELSE NilID

\* Tenant.Query().Where(ID(id), DeletedAtIsNil()).Only(ctx)
TenantLive(s, id) ==
    IF id \in 1..Len(s.tenants) /\ ~s.tenants[id].deleted THEN id ELSE NilID

\* domainSvc.ResolveDomain(ctx, "tenant", key): the DomainID, NilID on error
ResolveDomain(s, key) ==
    LET S == {i \in 1..Len(s.domains) : s.domains[i] = key}
    IN IF S = {} THEN NilID ELSE Min(S)

\* resolveDomainIDSafe resolving under a type code no domain has
resolveDomainIDWrongType(s, tenantCode) == NilID

resolveDomainIDSafe(s, tenantCode) == ResolveDomain(s, tenantCode)

\* domainSvc.CheckMembership(ctx, domainID, subjectID)
CheckMembership(s, domainID, subjectID) == <<domainID, subjectID>> \in s.domainMembers

(***************************************************************************)
(* Result of a call: the stores after it, its error, the tenant id and the *)
(* DomainID it returned, and whether one of its storage or collaborator    *)
(* calls failed; the events it handed to events.Publish and whether        *)
(* Publish returned an error.                                              *)
(***************************************************************************)
Result(s, err, id, dom, failed) ==
    [s |-> s, err |-> err, id |-> id, domainID |-> dom, failed |-> failed,
     events |-> <<>>, pubFailed |-> FALSE]

\* _ = s.events.Publish(ctx, plugin.Event{Name: name, ...}): the error of
\* Publish is dropped.
\* A call that publishes nothing
PublishedNothing(r, name, fault) == r

Published(r, name, fault) ==
    [r EXCEPT !.events = Append(@, name), !.pubFailed = (fault = "publish")]

\* A call that returns err without having written anything.
Reject(s, err, failed) == Result(s, err, NilID, NilID, failed)

\* The gate left open
requirePlatformDomainOpen(isPlatform) == Nil

requirePlatformDomain(isPlatform) ==
    IF isPlatform THEN Nil ELSE ErrPlatformDomainOnly

(***************************************************************************)
(* Parent references                                                       *)
(***************************************************************************)
\* The text of a tenant id: "#" stands for the fixed part of a UUID's text and
\* the character after it tells the ids apart.
uuidText == <<"1", "2", "3">>

UUIDString(id) == <<"#", uuidText[id]>>

\* uuid.Parse: [id, ok]
uuidParse(ref) ==
    IF Len(ref) = 2 /\ ref[1] = "#" /\ \E i \in 1..Len(uuidText) : uuidText[i] = ref[2]
    THEN [id |-> CHOOSE i \in 1..Len(uuidText) : uuidText[i] = ref[2], ok |-> TRUE]
    ELSE [id |-> NilID, ok |-> FALSE]

\* Service.resolveParentTenantID: [id, hasParent, err]
resolveParentTenantID(s, parentRef, selfID) ==
    LET ref == TrimSpace(parentRef)
        parsed == uuidParse(ref)
        parentEntity == IF parsed.ok THEN TenantLive(s, parsed.id)
                        ELSE TenantByCode(s, ref)
    IN IF ref = <<>> THEN [id |-> NilID, hasParent |-> FALSE, err |-> Nil]
       ELSE IF parentEntity = NilID
       THEN [id |-> NilID, hasParent |-> FALSE, err |-> ErrParentTenantInvalid]
       ELSE IF selfID # NilID /\ parentEntity = selfID
       THEN [id |-> NilID, hasParent |-> FALSE, err |-> ErrParentTenantInvalid]
       ELSE [id |-> parentEntity, hasParent |-> TRUE, err |-> Nil]

(***************************************************************************)
(* Membership rows                                                         *)
(***************************************************************************)
NewRow(tu, tenantID, userID, isDefault, roleName) ==
    [tenantID |-> tenantID, userID |-> userID,
     role |-> IF roleName # "" THEN roleName ELSE "member",
     isDefault |-> isDefault, status |-> StatusActive, deleted |-> FALSE,
     createdAt |-> Len(tu) + 1]

\* The membership query with a DeletedAtIsNil() filter
FindRowLive(tu, tenantID, userID) ==
    LET S == {i \in 1..Len(tu) : /\ tu[i].tenantID = tenantID
                                 /\ tu[i].userID = userID
                                 /\ ~tu[i].deleted}
    IN IF S = {} THEN NilID ELSE Min(S)

\* TenantUser.Query().Where(TenantIDEQ(tenantID), UserID(userID)).First(ctx)
FindRow(tu, tenantID, userID) ==
    LET S == {i \in 1..Len(tu) : tu[i].tenantID = tenantID /\ tu[i].userID = userID}
    IN IF S = {} THEN NilID ELSE Min(S)

\* TenantUser.Query().Where(UserID(userID), IsDefault(true), DeletedAtIsNil()).Exist(ctx)
HasDefault(tu, userID) ==
    \E i \in 1..Len(tu) : tu[i].userID = userID /\ tu[i].isDefault /\ ~tu[i].deleted

\* The membership row of AddMember.  fail: a storage call of it fails.
ensureMembership(tu, tenantID, userID, forceDefault, roleName, fail) ==
    LET existing == FindRow(tu, tenantID, userID)
        isDefault == forceDefault \/ ~HasDefault(tu, userID)
    IN IF fail THEN [tu |-> tu, err |-> "ensure membership"]
       ELSE IF existing # NilID
       THEN IF ~tu[existing].deleted /\ tu[existing].status = StatusActive
            THEN [tu |-> tu, err |-> Nil]
            ELSE [tu |-> [tu EXCEPT ![existing].deleted = FALSE,
                                    ![existing].status = StatusActive],
                  err |-> Nil]
       ELSE [tu |-> Append(tu, NewRow(tu, tenantID, userID, isDefault, roleName)),
             err |-> Nil]

\* ensureMembershipTx ignoring forceDefault
ensureMembershipTxNoForce(tu, tenantID, userID, forceDefault, roleName, fail) ==
    IF fail THEN [tu |-> tu, err |-> "create owner tenant-user record"]
    ELSE [tu |-> Append(tu, NewRow(tu, tenantID, userID, ~HasDefault(tu, userID),
                                   roleName)),
          err |-> Nil]

\* The owner's membership row of CreateTenant, written through the transaction.
ensureMembershipTx(tu, tenantID, userID, forceDefault, roleName, fail) ==
    LET existing == FindRow(tu, tenantID, userID)
        isDefault == forceDefault \/ ~HasDefault(tu, userID)
    IN IF fail THEN [tu |-> tu, err |-> "create owner tenant-user record"]
       ELSE IF existing # NilID
       THEN [tu |-> [tu EXCEPT
                 ![existing].deleted = FALSE,
                 ![existing].status = StatusActive,
                 ![existing].isDefault = IF forceDefault THEN TRUE ELSE @,
                 ![existing].role = IF roleName # "" THEN roleName ELSE @],
             err |-> Nil]
       ELSE [tu |-> Append(tu, NewRow(tu, tenantID, userID, isDefault, roleName)),
             err |-> Nil]

(***************************************************************************)
(* Collaborators                                                           *)
(***************************************************************************)
\* domainSvc.EnsureDomain(ctx, "tenant", key, name): idempotent get-or-create
EnsureDomain(d, key) ==
    IF \E i \in 1..Len(d) : d[i] = key THEN d ELSE Append(d, key)

DomainIDOf(d, key) == Min({i \in 1..Len(d) : d[i] = key})

baseline == <<"owner", "member">>

\* entRoleSeeder.SeedBaselineRoles: failAt is the position in baseline of the role
\* whose query or insert fails, 0 when none does.  Written through the client,
\* not through the transaction of the caller.
RECURSIVE SeedFrom(_, _, _, _)
SeedFrom(r, domainID, i, failAt) ==
    IF i > Len(baseline) THEN [roles |-> r, err |-> Nil]
    ELSE IF i = failAt THEN [roles |-> r, err |-> "seed baseline roles"]
    ELSE SeedFrom(r \cup {<<domainID, baseline[i]>>}, domainID, i + 1, failAt)

SeedBaselineRoles(r, domainID, failAt) == SeedFrom(r, domainID, 1, failAt)

(***************************************************************************)
(* CreateTenant                                                            *)
(***************************************************************************)
CreateFaults == {"none", "tx", "save", "ensureDomain", "seedOwner", "seedMember",
                 "addMembership", "ensureMembershipTx", "commit"}

\* The storage and collaborator calls a request makes, as places of failure.
CreateFaultsOf(isPlatform, reqCode, reqName, actor) ==
    IF ~isPlatform \/ TrimSpace(reqCode) = <<>> \/ TrimSpace(reqName) = <<>>
    THEN {"none"}
    ELSE IF actor = NoUser
    THEN CreateFaults \ {"addMembership", "ensureMembershipTx"}
    ELSE CreateFaults

CreateTenantCall(s, isPlatform, reqCode, reqName, actor, parentRef, fault) ==
    LET code == TrimSpace(reqCode)
        name == TrimSpace(reqName)
        hasOwner == actor # NoUser
        parent == resolveParentTenantID(s, parentRef, NilID)
        t == [id |-> Len(s.tenants) + 1, code |-> code, name |-> name,
              ownerID |-> actor,
              parentID |-> IF parent.hasParent THEN parent.id ELSE NilID,
              deleted |-> FALSE]
        d1 == EnsureDomain(s.domains, code)
        dom == DomainIDOf(d1, code)
        failAt == CASE fault = "seedOwner" -> 1 [] fault = "seedMember" -> 2 [] OTHER -> 0
        seed == SeedBaselineRoles(s.roles, dom, failAt)
        dm1 == IF hasOwner THEN s.domainMembers \cup {<<dom, actor>>}
               ELSE s.domainMembers
        em == IF hasOwner
              THEN ensureMembershipTx(s.tenantUsers, t.id, actor, TRUE,
                                      "tenant_admin", fault = "ensureMembershipTx")
              ELSE [tu |-> s.tenantUsers, err |-> Nil]
        \* what stays when the transaction is rolled back at each step
        afterDomain == [s EXCEPT !.domains = d1]
        afterSeed == [afterDomain EXCEPT !.roles = seed.roles]
        afterOwner == [afterSeed EXCEPT !.domainMembers = dm1]
        committed == [afterOwner EXCEPT !.tenants = Append(s.tenants, t),
                                        !.tenantUsers = em.tu]
    IN IF requirePlatformDomain(isPlatform) # Nil
       THEN Reject(s, ErrPlatformDomainOnly, FALSE)
       ELSE IF code = <<>> \/ name = <<>> THEN Reject(s, ErrInvalidTenant, FALSE)
       ELSE IF fault = "tx" THEN Reject(s, "start transaction", TRUE)
       ELSE IF parent.err # Nil THEN Reject(s, parent.err, FALSE)
       ELSE IF fault = "save" THEN Reject(s, "create tenant", TRUE)
       ELSE IF CodeTaken(s, code, fault) THEN Reject(s, ErrTenantCodeExists, FALSE)
       ELSE IF fault = "ensureDomain" THEN Reject(s, "ensure domain", TRUE)
       ELSE IF seed.err # Nil THEN Reject(afterSeed, seed.err, TRUE)
       ELSE IF hasOwner /\ fault = "addMembership"
       THEN Reject(afterSeed, "add owner membership to domain", TRUE)
       ELSE IF em.err # Nil THEN Reject(afterOwner, em.err, TRUE)
       ELSE IF fault = "commit" THEN Reject(afterOwner, "commit tenant creation", TRUE)
       ELSE Published(Result(committed, Nil, t.id, dom, FALSE),
                      EventTenantCreated, fault)

(***************************************************************************)
(* AddMember                                                               *)
(***************************************************************************)
AddFaults == {"none", "getTenant", "getUser", "memberQuery", "resolveDomain",
              "addMembership", "ensureMembership"}

\* The conflict loop comparing usernames only
MemberConflictUsernameOnly(tu, tenantID, userID) ==
    \E i \in 1..Len(tu) :
        /\ tu[i].tenantID = tenantID
        /\ ~tu[i].deleted
        /\ tu[i].status = StatusActive
        /\ tu[i].userID \in Users
        /\ tu[i].userID # userID
        /\ UserInfo(tu[i].userID).Username = UserInfo(userID).Username

\* The conflict loop: another live active member of the tenant has the
\* username or the email of the candidate.
MemberConflict(tu, tenantID, userID) ==
    \E i \in 1..Len(tu) :
        /\ tu[i].tenantID = tenantID
        /\ ~tu[i].deleted
        /\ tu[i].status = StatusActive
        /\ tu[i].userID \in Users
        /\ tu[i].userID # userID
        /\ \/ UserInfo(tu[i].userID).Username = UserInfo(userID).Username
           \/ UserInfo(tu[i].userID).Email = UserInfo(userID).Email

AddMemberCall(s, isPlatform, tenantID, userID, roleArg, fault) ==
    LET t == TenantGet(s, tenantID)
        role == IF roleArg = "" THEN "member" ELSE roleArg
        domainID == IF fault = "resolveDomain" THEN NilID
                    ELSE resolveDomainIDSafe(s, s.tenants[t].code)
        dm1 == IF domainID # NilID
               THEN s.domainMembers \cup {<<domainID, userID>>}
               ELSE s.domainMembers
        em == ensureMembership(s.tenantUsers, t, userID, FALSE, role,
                               fault = "ensureMembership")
        afterDomain == [s EXCEPT !.domainMembers = dm1]
    IN IF requirePlatformDomain(isPlatform) # Nil
       THEN Reject(s, ErrPlatformDomainOnly, FALSE)
       ELSE IF fault = "getTenant" THEN Reject(s, "get tenant", TRUE)
       ELSE IF t = NilID THEN Reject(s, ErrTenantNotFound, FALSE)
       ELSE IF fault = "getUser" THEN Reject(s, "get user", TRUE)
       ELSE IF fault = "memberQuery" THEN Reject(s, "check member conflict", TRUE)
       ELSE IF MemberConflict(s.tenantUsers, t, userID)
       THEN Reject(s, ErrMemberExists, FALSE)
       ELSE IF domainID # NilID /\ fault = "addMembership"
       THEN Reject(s, "add domain membership", TRUE)
       ELSE IF em.err # Nil THEN Reject(afterDomain, em.err, TRUE)
       ELSE Published(Result([afterDomain EXCEPT !.tenantUsers = em.tu], Nil, t,
                             NilID, fault = "resolveDomain"),
                      EventTenantMemberAdded, fault)

(***************************************************************************)
(* RemoveMember                                                            *)
(***************************************************************************)
RemoveFaults == {"none", "getTenant", "membershipQuery", "softDelete",
                 "resolveDomain", "removeMembership", "altQuery", "promote"}

\* The membership query of RemoveMember without its DeletedAtIsNil() filter
LiveRowOrDeleted(tu, tenantID, userID) ==
    LET S == {i \in 1..Len(tu) : tu[i].tenantID = tenantID /\ tu[i].userID = userID}
    IN IF S = {} THEN NilID ELSE Min(S)

\* TenantUser.Query().Where(TenantIDEQ, UserID, DeletedAtIsNil()).First(ctx)
LiveRow(tu, tenantID, userID) ==
    LET S == {i \in 1..Len(tu) : /\ tu[i].tenantID = tenantID
                                 /\ tu[i].userID = userID
                                 /\ ~tu[i].deleted}
    IN IF S = {} THEN NilID ELSE Min(S)

\* The rows Where(UserID, DeletedAtIsNil(), StatusEQ(StatusActive)) selects
Alternatives(tu, userID) ==
    {i \in 1..Len(tu) : /\ tu[i].userID = userID
                        /\ ~tu[i].deleted
                        /\ tu[i].status = StatusActive}

\* Order(Desc(created_at)).First(ctx)
Newest(tu, S) == CHOOSE i \in S : \A j \in S : tu[i].createdAt >= tu[j].createdAt

\* Order(Asc(created_at)).First(ctx)
Oldest(tu, S) == CHOOSE i \in S : \A j \in S : tu[i].createdAt <= tu[j].createdAt

RemoveMemberCall(s, isPlatform, tenantID, userID, fault) ==
    LET t == TenantGet(s, tenantID)
        tu == s.tenantUsers
        membership == LiveRow(tu, t, userID)
        tu1 == [tu EXCEPT ![membership].deleted = TRUE]
        domainID == IF fault = "resolveDomain" THEN NilID
                    ELSE resolveDomainIDSafe(s, s.tenants[t].code)
        dm1 == IF domainID # NilID /\ fault # "removeMembership"
               THEN s.domainMembers \ {<<domainID, userID>>}
               ELSE s.domainMembers
        alts == IF fault = "altQuery" THEN {} ELSE Alternatives(tu1, userID)
        tu2 == IF tu[membership].isDefault /\ alts # {} /\ fault # "promote"
               THEN [tu1 EXCEPT ![Oldest(tu1, alts)].isDefault = TRUE]
               ELSE tu1
        failed == \/ fault = "resolveDomain"
                  \/ domainID # NilID /\ fault = "removeMembership"
                  \/ tu[membership].isDefault /\ fault = "altQuery"
                  \/ tu[membership].isDefault /\ alts # {} /\ fault = "promote"
    IN IF requirePlatformDomain(isPlatform) # Nil
       THEN Reject(s, ErrPlatformDomainOnly, FALSE)
       ELSE IF fault = "getTenant" THEN Reject(s, "get tenant", TRUE)
       ELSE IF t = NilID THEN Reject(s, ErrTenantNotFound, FALSE)
       ELSE IF fault = "membershipQuery" THEN Reject(s, "get membership", TRUE)
       ELSE IF membership = NilID THEN Reject(s, ErrMemberNotFound, FALSE)
       ELSE IF fault = "softDelete" THEN Reject(s, "remove membership", TRUE)
       ELSE Published(Result([s EXCEPT !.tenantUsers = tu2, !.domainMembers = dm1],
                             Nil, t, NilID, failed),
                      EventTenantMemberRemoved, fault)

(***************************************************************************)
(* UpdateTenant, DeleteTenant                                              *)
(***************************************************************************)
UpdateFaults == {"none", "getTenant", "save", "publish"}

\* Tenant.Get(ctx, id) has no deleted_at filter: a soft-deleted tenant is found.
UpdateTenantCall(s, isPlatform, id, reqName, parentRef, fault) ==
    LET t == TenantGet(s, id)
        parent == resolveParentTenantID(s, parentRef, id)
        row == s.tenants[t]
        row1 == IF parent.hasParent THEN [row EXCEPT !.parentID = parent.id] ELSE row
        row2 == IF reqName # <<>> THEN [row1 EXCEPT !.name = TrimSpace(reqName)]
                ELSE row1
        saved == [s EXCEPT !.tenants[t] = row2]
    IN IF requirePlatformDomain(isPlatform) # Nil
       THEN Reject(s, ErrPlatformDomainOnly, FALSE)
       ELSE IF fault = "getTenant" THEN Reject(s, "get tenant", TRUE)
       ELSE IF t = NilID THEN Reject(s, ErrTenantNotFound, FALSE)
       ELSE IF parent.err # Nil THEN Reject(s, parent.err, FALSE)
       ELSE IF fault = "save" THEN Reject(s, "update tenant", TRUE)
       ELSE Published(Result(saved, Nil, t, resolveDomainIDSafe(saved, row2.code),
                             FALSE),
                      EventTenantUpdated, fault)

DeleteFaults == {"none", "getTenant", "save", "publish"}

\* A delete that cascades to the membership rows of the tenant
DeleteTenantCascade(s, isPlatform, id, fault) ==
    IF isPlatform /\ id \in 1..Len(s.tenants)
    THEN Published(Result([s EXCEPT !.tenants[id].deleted = TRUE,
                                    !.tenantUsers = [i \in 1..Len(s.tenantUsers) |->
                                        IF s.tenantUsers[i].tenantID = id
                                        THEN [s.tenantUsers[i] EXCEPT !.deleted = TRUE]
                                        ELSE s.tenantUsers[i]]],
                          Nil, id, NilID, FALSE), EventTenantDeleted, fault)
    ELSE Reject(s, IF isPlatform THEN ErrTenantNotFound ELSE ErrPlatformDomainOnly,
                FALSE)

DeleteTenantCall(s, isPlatform, id, fault) ==
    LET t == TenantGet(s, id)
        saved == [s EXCEPT !.tenants[t].deleted = TRUE]
    IN IF requirePlatformDomain(isPlatform) # Nil
       THEN Reject(s, ErrPlatformDomainOnly, FALSE)
       ELSE IF fault = "getTenant" THEN Reject(s, "get tenant", TRUE)
       ELSE IF t = NilID THEN Reject(s, ErrTenantNotFound, FALSE)
       ELSE IF fault = "save" THEN Reject(s, "soft delete tenant", TRUE)
       ELSE Published(Result(saved, Nil, t, NilID, FALSE), EventTenantDeleted, fault)

(***************************************************************************)
(* OnUserDeleted                                                           *)
(***************************************************************************)
\* The dynamic types of the data a user.deleted event carries: a map decoded
\* from JSON, or a pointer to a struct the publisher declares.
PayloadTypes == {"map[string]any", "*publisher.struct"}

\* userDeletedPayload is declared inside OnUserDeleted: no value built outside
\* the function has the type *userDeletedPayload.
LocalPayloadType == "*OnUserDeleted.userDeletedPayload"

Payload(type, userID) == [type |-> type, userID |-> userID]

OnUserDeletedFaults == {"none", "list", "firstRow"}

\* fault "firstRow": the write of the first listed row fails and is logged.
OnUserDeletedCall(s, data, fault) ==
    LET ok == data.type = LocalPayloadType
        tu == s.tenantUsers
        memberships == {i \in 1..Len(tu) : tu[i].userID = data.userID /\ ~tu[i].deleted}
        written == IF fault = "firstRow" /\ memberships # {}
                   THEN memberships \ {Min(memberships)}
                   ELSE memberships
        tu1 == [i \in 1..Len(tu) |->
                   IF i \in written THEN [tu[i] EXCEPT !.deleted = TRUE] ELSE tu[i]]
    IN IF ~ok THEN Result(s, Nil, NilID, NilID, FALSE)
       ELSE IF fault = "list" THEN Reject(s, "list user memberships", TRUE)
       ELSE Result([s EXCEPT !.tenantUsers = tu1], Nil, NilID, NilID,
                   fault = "firstRow" /\ memberships # {})

(***************************************************************************)
(* Read paths                                                              *)
(***************************************************************************)
\* Service.ListTenants: [err, out], out the ids of the tenants listed, over
\* all pages and without a search text or a status filter
ListTenantsCall(s, isPlatform, includeDeleted) ==
    IF requirePlatformDomain(isPlatform) # Nil
    THEN [err |-> ErrPlatformDomainOnly, out |-> {}]
    ELSE [err |-> Nil,
          out |-> {i \in 1..Len(s.tenants) : includeDeleted \/ ~s.tenants[i].deleted}]

\* The int of the page arithmetic.  Its 64 bits are scaled to 16, so that the
\* offset of a large page wraps as it does in the code.
IntMax == 32767

Wrap(x) == ((x + IntMax + 1) % (2 * (IntMax + 1))) - (IntMax + 1)

DefaultPageSize == 20
MaxPageSize == 100

\* The pages and page sizes a caller may ask for
Pages == {-1, 0, 1, 2, 3, IntMax}
PageSizes == {-5, 0, 1, 2, 3, 100, 101, IntMax}

clampPage(page) == IF page < 1 THEN 1 ELSE page

\* The page size without its upper limit
clampPageSizeNoMax(pageSize) == IF pageSize < 1 THEN DefaultPageSize ELSE pageSize

clampPageSize(pageSize) ==
    IF pageSize < 1 THEN DefaultPageSize
    ELSE IF pageSize > MaxPageSize THEN MaxPageSize
    ELSE pageSize

\* The ids in S, newest first: Order(Desc(created_at))
RECURSIVE NewestFirst(_)
NewestFirst(S) ==
    IF S = {} THEN <<>>
    ELSE LET newest == CHOOSE i \in S : \A j \in S : j <= i
         IN <<newest>> \o NewestFirst(S \ {newest})

\* Offset(offset).Limit(limit) on the rows in their order
OffsetLimit(rows, offset, limit) ==
    SubSeq(rows, offset + 1, IF offset + limit > Len(rows) THEN Len(rows) ELSE offset + limit)

\* Service.ListTenants with a page and a page size, without a search text or
\* a status filter.  A negative offset, which the product gives when it
\* wraps, is refused by the store (refused) or taken as 0.
ListTenantsPaged(s, isPlatform, reqPage, reqPageSize, includeDeleted, refused) ==
    LET page == clampPage(reqPage)
        pageSize == clampPageSize(reqPageSize)
        matching == {i \in 1..Len(s.tenants) : includeDeleted \/ ~s.tenants[i].deleted}
        total == Cardinality(matching)
        offset == Wrap((page - 1) * pageSize)
        items == OffsetLimit(NewestFirst(matching), IF offset < 0 THEN 0 ELSE offset,
                             pageSize)
        totalPages == Wrap(total + pageSize - 1) \div pageSize
        none == [Tenants |-> <<>>, Total |-> 0, Page |-> 0, PageSize |-> 0,
                 TotalPages |-> 0, reqPage |-> reqPage, reqPageSize |-> reqPageSize]
    IN IF requirePlatformDomain(isPlatform) # Nil
       THEN [err |-> ErrPlatformDomainOnly, out |-> none]
       ELSE IF offset < 0 /\ refused THEN [err |-> "list tenants", out |-> none]
       ELSE [err |-> Nil,
             out |-> [Tenants |-> items, Total |-> total, Page |-> page,
                      PageSize |-> pageSize, TotalPages |-> totalPages,
                      reqPage |-> reqPage, reqPageSize |-> reqPageSize]]

\* Service.ListMyTenants: [err, out], out the entries listed.  It does not
\* look at the acting context, and the tenant query has no deleted_at filter.
ListMyTenantsCall(s, isPlatform, userID) ==
    [err |-> Nil,
     out |-> {[id |-> s.tenantUsers[i].tenantID, role |-> s.tenantUsers[i].role,
               isDefault |-> s.tenantUsers[i].isDefault] :
              i \in {j \in 1..Len(s.tenantUsers) :
                        /\ s.tenantUsers[j].userID = userID
                        /\ ~s.tenantUsers[j].deleted
                        /\ s.tenantUsers[j].status = StatusActive
                        /\ s.tenantUsers[j].tenantID \in 1..Len(s.tenants)}}]

\* Service.IsMember: [ok, err]
IsMember(s, tenantID, userID) ==
    LET t == TenantGet(s, tenantID)
        domainID == resolveDomainIDSafe(s, s.tenants[t].code)
    IN IF t = NilID THEN [ok |-> FALSE, err |-> ErrTenantNotFound]
       ELSE IF domainID # NilID
       THEN [ok |-> CheckMembership(s, domainID, userID), err |-> Nil]
       ELSE [ok |-> \E i \in 1..Len(s.tenantUsers) :
                        /\ s.tenantUsers[i].tenantID = t
                        /\ s.tenantUsers[i].userID = userID
                        /\ ~s.tenantUsers[i].deleted
                        /\ s.tenantUsers[i].status = StatusActive,
             err |-> Nil]

\* ListMembers without the DeletedAtIsNil() filter
ListMembersWithDeleted(s, tenantID) ==
    LET t == TenantGet(s, tenantID)
    IN IF t = NilID THEN {}
       ELSE {s.tenantUsers[i].userID : i \in
                {j \in 1..Len(s.tenantUsers) :
                    /\ s.tenantUsers[j].tenantID = t
                    /\ s.tenantUsers[j].status = StatusActive
                    /\ s.tenantUsers[j].userID \in Users}}

\* Service.ListMembers in a platform-domain context: the user ids of the
\* members listed, over all pages
ListMembers(s, tenantID) ==
    LET t == TenantGet(s, tenantID)
    IN IF t = NilID THEN {}
       ELSE {s.tenantUsers[i].userID : i \in
                {j \in 1..Len(s.tenantUsers) :
                    /\ s.tenantUsers[j].tenantID = t
                    /\ ~s.tenantUsers[j].deleted
                    /\ s.tenantUsers[j].status = StatusActive
                    /\ s.tenantUsers[j].userID \in Users}}

\* Service.ListMembers in any context: [err, out]
ListMembersCall(s, isPlatform, tenantID) ==
    IF requirePlatformDomain(isPlatform) # Nil
    THEN [err |-> ErrPlatformDomainOnly, out |-> {}]
    ELSE IF TenantGet(s, tenantID) = NilID
    THEN [err |-> ErrTenantNotFound, out |-> {}]
    ELSE [err |-> Nil, out |-> ListMembers(s, tenantID)]

\* Service.toDTO
toDTO(t, domainID) ==
    [id |-> t.id, code |-> t.code, name |-> t.name, domainID |-> domainID]

\* Service.GetTenant: [dto, err]; Tenant.Get(ctx, id) has no deleted_at filter
GetTenant(s, id) ==
    LET t == TenantGet(s, id)
    IN IF t = NilID THEN [dto |-> Nil, err |-> ErrTenantNotFound]
       ELSE [dto |-> toDTO(s.tenants[t], resolveDomainIDSafe(s, s.tenants[t].code)),
             err |-> Nil]

\* Service.GetTenantByCode: [dto, err]; the code is compared as given
GetTenantByCode(s, code) ==
    LET t == TenantByCode(s, code)
    IN IF t = NilID THEN [dto |-> Nil, err |-> ErrTenantNotFound]
       ELSE [dto |-> toDTO(s.tenants[t], resolveDomainIDSafe(s, s.tenants[t].code)),
             err |-> Nil]

\* Service.GetDomainID: [id, err]
GetDomainID(s, tenantCode) ==
    LET id == ResolveDomain(s, tenantCode)
    IN IF id = NilID THEN [id |-> NilID, err |-> "resolve domain"]
       ELSE [id |-> id, err |-> Nil]

(***************************************************************************)
(* The organization service of the ou plugin.  An operation is a function  *)
(* of the organization store o = [orgs, orgMembers] and of its arguments.  *)
(***************************************************************************)
ErrDomainContextMissing == "ou organization: missing domain context"
ErrInvalidDomainID      == "ou organization: invalid domain id"
ErrOrganizationNotFound == "ou organization: organization not found"
ErrMemberAlreadyExists  == "ou organization: member already exists"
ErrCodeAndNameRequired  == "ou organization: code and name are required"
ErrUserIDRequired       == "ou organization: user id is required"
ErrConstraint           == "ent: constraint failed"

\* The domain id of the request context: none, a text that is no UUID, or the
\* text of the UUID of a domain.
OrgDomains == 1..2
Contexts ==
    {[ok |-> FALSE, raw |-> <<>>], [ok |-> TRUE, raw |-> <<"x">>]}
        \cup {[ok |-> TRUE, raw |-> UUIDString(d)] : d \in OrgDomains}
OrgCodes == {<<"a">>, <<"a", "b">>, <<"b">>, <<"a", "/", "b">>, <<" ">>}
OrgNames == {<<"n">>, <<" ">>}
OrgIDs == 1..3

OrgStore(og, om) == [orgs |-> og, orgMembers |-> om]

CurrentOrgs == OrgStore(orgs, orgMembers)

OrgResult(o, err, id, out) == [o |-> o, err |-> err, id |-> id, out |-> out]

\* core.GetDomainID and uuid.Parse
domainIDFromContext(ctx) ==
    IF ~ctx.ok THEN [id |-> NilID, err |-> ErrDomainContextMissing]
    ELSE IF ~uuidParse(ctx.raw).ok THEN [id |-> NilID, err |-> ErrInvalidDomainID]
    ELSE [id |-> uuidParse(ctx.raw).id, err |-> Nil]

\* The query by id without its DomainIDEQ(domainID) predicate
OrgInAnyDomain(o, id, domainID) == IF id \in 1..Len(o.orgs) THEN id ELSE NilID

\* Organization.Query().Where(IDEQ(id), DomainIDEQ(domainID)).Only(ctx)
OrgInDomain(o, id, domainID) ==
    IF id \in 1..Len(o.orgs) /\ o.orgs[id].domainID = domainID THEN id ELSE NilID

\* The path of a root node, kept as it is for every node
joinPathFlat(pathPrefix, code) == code

\* path := code; if pathPrefix != "" { path = pathPrefix + "/" + code }
joinPath(pathPrefix, code) ==
    IF pathPrefix # <<>> THEN pathPrefix \o <<"/">> \o code ELSE code

\* The uniqueness of (domain, path) the store enforces on Save
PathTaken(o, domainID, path) ==
    \E i \in 1..Len(o.orgs) : o.orgs[i].domainID = domainID /\ o.orgs[i].path = path

CreateOrganizationCall(o, ctx, reqCode, reqName, parentID) ==
    LET dom == domainIDFromContext(ctx)
        code == TrimSpace(reqCode)
        name == TrimSpace(reqName)
        parent == OrgInDomain(o, parentID, dom.id)
        pathPrefix == IF parentID # NilID THEN o.orgs[parent].path ELSE <<>>
        path == joinPath(pathPrefix, code)
        id == Len(o.orgs) + 1
        item == [id |-> id, domainID |-> dom.id,
                 parentID |-> IF parentID # NilID THEN parent ELSE NilID,
                 code |-> code, name |-> name, path |-> path]
    IN IF dom.err # Nil THEN OrgResult(o, dom.err, NilID, <<>>)
       ELSE IF code = <<>> \/ name = <<>>
            THEN OrgResult(o, ErrCodeAndNameRequired, NilID, <<>>)
       ELSE IF parentID # NilID /\ parent = NilID
            THEN OrgResult(o, ErrOrganizationNotFound, NilID, <<>>)
       ELSE IF PathTaken(o, dom.id, path)
            THEN OrgResult(o, ErrConstraint, NilID, <<>>)
       ELSE OrgResult([o EXCEPT !.orgs = Append(@, item)], Nil, id, <<>>)

\* The characters of the model in the order of their bytes
Chars == <<" ", "#", "/", "1", "2", "3", "a", "b", "c", "m", "n", "x">>

CharRank(c) == CHOOSE k \in 1..Len(Chars) : Chars[k] = c

\* p < q as strings: the order of ent.Asc(FieldPath)
RECURSIVE PathLess(_, _)
PathLess(p, q) ==
    IF q = <<>> THEN FALSE
    ELSE IF p = <<>> THEN TRUE
    ELSE IF Head(p) = Head(q) THEN PathLess(Tail(p), Tail(q))
    ELSE CharRank(Head(p)) < CharRank(Head(q))

\* The ids in S in the ascending order of their paths
RECURSIVE SortByPath(_, _)
SortByPath(og, S) ==
    IF S = {} THEN <<>>
    ELSE LET first == CHOOSE i \in S :
                 \A j \in S \ {i} :
                     \/ PathLess(og[i].path, og[j].path)
                     \/ og[i].path = og[j].path /\ i < j
         IN <<first>> \o SortByPath(og, S \ {first})

SeqRange(q) == {q[k] : k \in 1..Len(q)}

\* The second loop, with every node appended to roots
treeRootsAll(og, ord) == ord

\* The second loop of GetOrganizationTree: the nodes appended to roots
treeRoots(og, ord) ==
    SelectSeq(ord, LAMBDA i : og[i].parentID = NilID \/ og[i].parentID \notin SeqRange(ord))

\* The second loop of GetOrganizationTree: the Children of node p
treeChildren(og, ord, p) ==
    SelectSeq(ord, LAMBDA i : og[i].parentID = p)

GetOrganizationTreeCall(o, ctx) ==
    LET dom == domainIDFromContext(ctx)
        ord == SortByPath(o.orgs, {i \in 1..Len(o.orgs) : o.orgs[i].domainID = dom.id})
    IN IF dom.err # Nil THEN OrgResult(o, dom.err, NilID, <<>>)
       ELSE OrgResult(o, Nil, NilID,
                      [roots |-> treeRoots(o.orgs, ord),
                       children |-> [p \in SeqRange(ord) |-> treeChildren(o.orgs, ord, p)]])

\* The uniqueness of (organization, user) the store enforces on Save
OrgMemberTaken(o, organizationID, userID) ==
    \E i \in 1..Len(o.orgMembers) :
        o.orgMembers[i].orgID = organizationID /\ o.orgMembers[i].userID = userID

\* The rows when no primary membership is reset
DemotedNone(om, domainID, userID) == om

\* OrganizationMember.Update().Where(domain, user, IsPrimaryEQ(true)).SetIsPrimary(false)
Demoted(om, domainID, userID) ==
    [i \in 1..Len(om) |->
        IF om[i].domainID = domainID /\ om[i].userID = userID /\ om[i].isPrimary
        THEN [om[i] EXCEPT !.isPrimary = FALSE] ELSE om[i]]

AddOrganizationMemberCall(o, ctx, organizationID, userID, isPrimary) ==
    LET dom == domainIDFromContext(ctx)
        reset == IF isPrimary THEN [o EXCEPT !.orgMembers = Demoted(@, dom.id, userID)]
                 ELSE o
        item == [domainID |-> dom.id, orgID |-> organizationID, userID |-> userID,
                 isPrimary |-> isPrimary]
    IN IF dom.err # Nil THEN OrgResult(o, dom.err, NilID, <<>>)
       ELSE IF userID = NoUser THEN OrgResult(o, ErrUserIDRequired, NilID, <<>>)
       ELSE IF OrgInDomain(o, organizationID, dom.id) = NilID
            THEN OrgResult(o, ErrOrganizationNotFound, NilID, <<>>)
       ELSE IF OrgMemberTaken(reset, organizationID, userID)
            THEN OrgResult(reset, ErrMemberAlreadyExists, NilID, <<>>)
       ELSE OrgResult([reset EXCEPT !.orgMembers = Append(@, item)], Nil,
                      organizationID, <<>>)

\* strings.HasPrefix, as the PathHasPrefix predicate of the store applies it
HasPrefix(str, prefix) ==
    /\ Len(prefix) <= Len(str)
    /\ SubSeq(str, 1, Len(prefix)) = prefix

\* uniqueUserIDs: the user ids of the rows in their order, each kept once
RECURSIVE uniqueFrom(_, _, _)
uniqueFrom(members, i, userIDs) ==
    IF i > Len(members) THEN userIDs
    ELSE IF \E k \in 1..Len(userIDs) : userIDs[k] = members[i].userID
         THEN uniqueFrom(members, i + 1, userIDs)
         ELSE uniqueFrom(members, i + 1, Append(userIDs, members[i].userID))

uniqueUserIDs(members) == uniqueFrom(members, 1, <<>>)

ListOrganizationUserIDs(o, domainID, orgID) ==
    OrgResult(o, Nil, orgID,
              uniqueUserIDs(SelectSeq(o.orgMembers,
                  LAMBDA m : m.domainID = domainID /\ m.orgID = orgID)))

ListSubtreeUserIDsCall(o, domainID, orgID) ==
    LET org == OrgInDomain(o, orgID, domainID)
        nodes == {i \in 1..Len(o.orgs) :
                     /\ o.orgs[i].domainID = domainID
                     /\ HasPrefix(o.orgs[i].path, o.orgs[org].path)}
        members == SelectSeq(o.orgMembers,
                       LAMBDA m : m.domainID = domainID /\ m.orgID \in nodes)
    IN IF org = NilID THEN OrgResult(o, ErrOrganizationNotFound, NilID, <<>>)
       ELSE OrgResult(o, Nil, orgID, uniqueUserIDs(members))

(***************************************************************************)
(* The scope resolver of the ou plugin.                                    *)
(***************************************************************************)
ScopeOUSelf    == "OU_SELF"
ScopeOUSubtree == "OU_SUBTREE"

\* The scope kinds a caller may ask for: the two of the ou plugin, two of
\* other resolvers and the empty one.
ScopeTypes == {ScopeOUSelf, ScopeOUSubtree, "ALL", "SELF", ""}

NilFilter == [isNil |-> TRUE, Type |-> "", UserID |-> NoUser]

FilterCondition(type, userID) == [isNil |-> FALSE, Type |-> type, UserID |-> userID]

\* A resolver that knows the scope kind OU self only
ResolveSelfOnly(userID, domainID, scopeType, scopeValue) ==
    IF scopeType = ScopeOUSelf
    THEN [filter |-> FilterCondition(scopeType, userID), err |-> Nil]
    ELSE [filter |-> NilFilter, err |-> Nil]

\* ScopeResolver.Resolve: [filter, err]
ResolveCall(userID, domainID, scopeType, scopeValue) ==
    IF scopeType \in {ScopeOUSelf, ScopeOUSubtree}
    THEN [filter |-> FilterCondition(scopeType, userID), err |-> Nil]
    ELSE [filter |-> NilFilter, err |-> Nil]

ErrNotSingular == "ent: organization_member not singular"
ErrNotFound    == "ent: organization_member not found"

\* The membership rows of a user in a domain
MemberRows(om, domainID, userID) ==
    {i \in 1..Len(om) : om[i].domainID = domainID /\ om[i].userID = userID}

\* The rows the query with IsPrimaryEQ(true) selects
PrimaryMemberRows(om, domainID, userID) ==
    {i \in MemberRows(om, domainID, userID) : om[i].isPrimary}

\* pick: the row First(ctx) returns of the rows it selects, which have no order
GetPrimaryOrganizationIDCall(o, domainID, userID, pick) ==
    LET primary == PrimaryMemberRows(o.orgMembers, domainID, userID)
        any == MemberRows(o.orgMembers, domainID, userID)
    IN IF Cardinality(primary) = 1
       THEN OrgResult(o, Nil, o.orgMembers[CHOOSE i \in primary : TRUE].orgID, <<>>)
       ELSE IF primary # {} THEN OrgResult(o, ErrNotSingular, NilID, <<>>)
       ELSE IF any = {} THEN OrgResult(o, ErrNotFound, NilID, <<>>)
       ELSE OrgResult(o, Nil, o.orgMembers[pick].orgID, <<>>)

(***************************************************************************)
(* Calls in progress.  A caller is idle or is at a storage call of the     *)
(* operation it runs, with the arguments and the values it has read.       *)
(***************************************************************************)
Callers == 1..2

\* pc: the storage call the caller is at; target: the tenant or organization
\* of the call; flag: isPrimary of AddOrganizationMember, or that the call has
\* created a row; seen: what the call has read of the default flag; row: the
\* row the call has read.
Flight(pc, domainID, target, userID, flag, seen) ==
    [pc |-> pc, domainID |-> domainID, target |-> target, userID |-> userID,
     flag |-> flag, seen |-> seen, row |-> NilID]

Idle == Flight("idle", NilID, NilID, NoUser, FALSE, FALSE)

\* A caller that can start a call
Free(k) == inflight[k].pc \in {"idle", "done", "crashed"}

\* A soft delete that makes the oldest other membership of the user the default
\* in the same write
SoftDeletedAndPromoted(tu, row) ==
    LET tu1 == [tu EXCEPT ![row].deleted = TRUE]
        alts == Alternatives(tu1, tu[row].userID)
    IN IF tu[row].isDefault /\ alts # {}
       THEN [tu1 EXCEPT ![Oldest(tu1, alts)].isDefault = TRUE]
       ELSE tu1

\* TenantUser.Update().Where(ID(membership.ID)).SetDeletedAt(now).Save(ctx)
SoftDeleted(tu, row) == [tu EXCEPT ![row].deleted = TRUE]

\* isDefault of the row Create() saves, decided again from the rows at the save
DefaultAtSave(c, tu) == ~HasDefault(tu, c.userID)

\* isDefault of the row Create() saves: !hasDefault of the query made before
DefaultAsRead(c, tu) == ~c.seen

(***************************************************************************)
(* The state machine                                                       *)
(***************************************************************************)
\* The tenant service does not write the tables of the ou plugin.
Apply(r) ==
    /\ tenants' = r.s.tenants
    /\ tenantUsers' = r.s.tenantUsers
    /\ domains' = r.s.domains
    /\ domainMembers' = r.s.domainMembers
    /\ roles' = r.s.roles
    /\ UNCHANGED <<orgs, orgMembers, inflight, services, plugins>>

\* What is kept of a completed call: its arguments (ref: the parent reference
\* of CreateTenant and UpdateTenant), its result, the events it published
\* (role: the role the tenant.member.added event of AddMember carries) and,
\* for a read, what it returned (out).
CallOut(op, tenantID, userID, code, name, ref, r, out) ==
    [op |-> op, tenantID |-> tenantID, userID |-> userID, code |-> code,
     name |-> name, ref |-> ref, err |-> r.err, domainID |-> r.domainID,
     failed |-> r.failed, events |-> r.events, pubFailed |-> r.pubFailed,
     out |-> out, orgID |-> NilID, parentID |-> NilID, scope |-> "",
     instance |-> NilID, role |-> ""]

Call(op, tenantID, userID, code, name, r) ==
    CallOut(op, tenantID, userID, code, name, <<>>, r, {})

CreateTenant(isPlatform, reqCode, reqName, actor, parentRef, fault) ==
    /\ left > 0
    /\ LET r == CreateTenantCall(Current, isPlatform, reqCode, reqName, actor,
                                 parentRef, fault)
       IN /\ Apply(r)
          /\ last' = CallOut("CreateTenant", r.id, actor, reqCode, reqName,
                             parentRef, r, {})
    /\ left' = left - 1

AddMember(isPlatform, tenantID, userID, roleArg, fault) ==
    /\ left > 0
    /\ LET r == AddMemberCall(Current, isPlatform, tenantID, userID, roleArg, fault)
       IN /\ Apply(r)
          /\ last' = [Call("AddMember", tenantID, userID, <<>>, <<>>, r)
                          EXCEPT !.role = IF roleArg = "" THEN "member" ELSE roleArg]
    /\ left' = left - 1

RemoveMember(isPlatform, tenantID, userID, fault) ==
    /\ left > 0
    /\ LET r == RemoveMemberCall(Current, isPlatform, tenantID, userID, fault)
       IN /\ Apply(r)
          /\ last' = Call("RemoveMember", tenantID, userID, <<>>, <<>>, r)
    /\ left' = left - 1

UpdateTenant(isPlatform, id, reqName, parentRef, fault) ==
    /\ left > 0
    /\ LET r == UpdateTenantCall(Current, isPlatform, id, reqName, parentRef, fault)
       IN /\ Apply(r)
          /\ last' = CallOut("UpdateTenant", id, NoUser, <<>>, reqName, parentRef, r, {})
    /\ left' = left - 1

DeleteTenant(isPlatform, id, fault) ==
    /\ left > 0
    /\ LET r == DeleteTenantCall(Current, isPlatform, id, fault)
       IN /\ Apply(r)
          /\ last' = Call("DeleteTenant", id, NoUser, <<>>, <<>>, r)
    /\ left' = left - 1

\* The user.deleted subscription of TenantPlugin.SubscribeEvents delivers e.Data.
OnUserDeleted(data, fault) ==
    /\ left > 0
    /\ LET r == OnUserDeletedCall(Current, data, fault)
       IN /\ Apply(r)
          /\ last' = Call("OnUserDeleted", NilID, data.userID, <<>>, <<>>, r)
    /\ left' = left - 1

\* A read changes no store; what it returned is kept in last.
Read(op, tenantID, userID, res) ==
    /\ Apply(Reject(Current, res.err, FALSE))
    /\ last' = CallOut(op, tenantID, userID, <<>>, <<>>, <<>>,
                       Reject(Current, res.err, FALSE), res.out)
    /\ left' = left - 1

ListTenants(isPlatform, includeDeleted) ==
    /\ left > 0
    /\ Read("ListTenants", NilID, NoUser,
            ListTenantsCall(Current, isPlatform, includeDeleted))

ListMembersRead(isPlatform, tenantID) ==
    /\ left > 0
    /\ Read("ListMembers", tenantID, NoUser,
            ListMembersCall(Current, isPlatform, tenantID))

ListMyTenants(isPlatform, userID) ==
    /\ left > 0
    /\ Read("ListMyTenants", NilID, userID,
            ListMyTenantsCall(Current, isPlatform, userID))

\* The record kept of a completed call of the organization service.
OrgCall(op, domainID, orgID, userID, code, name, parentID, r) ==
    [CallOut(op, NilID, userID, code, name, <<>>, Reject(Current, r.err, FALSE), r.out)
        EXCEPT !.orgID = orgID, !.parentID = parentID, !.domainID = domainID]

ApplyOrgs(r) ==
    /\ orgs' = r.o.orgs
    /\ orgMembers' = r.o.orgMembers
    /\ UNCHANGED <<tenants, tenantUsers, domains, domainMembers, roles, inflight, services, plugins>>

CreateOrganization(ctx, reqCode, reqName, parentID) ==
    /\ left > 0
    /\ LET r == CreateOrganizationCall(CurrentOrgs, ctx, reqCode, reqName, parentID)
       IN /\ ApplyOrgs(r)
          /\ last' = OrgCall("CreateOrganization", domainIDFromContext(ctx).id, r.id,
                             NoUser, reqCode, reqName, parentID, r)
    /\ left' = left - 1

AddOrganizationMember(ctx, organizationID, userID, isPrimary) ==
    /\ left > 0
    /\ LET r == AddOrganizationMemberCall(CurrentOrgs, ctx, organizationID, userID,
                                          isPrimary)
       IN /\ ApplyOrgs(r)
          /\ last' = OrgCall("AddOrganizationMember", domainIDFromContext(ctx).id,
                             organizationID, userID, <<>>, <<>>, NilID, r)
    /\ left' = left - 1

ListSubtreeUserIDs(domainID, orgID) ==
    /\ left > 0
    /\ LET r == ListSubtreeUserIDsCall(CurrentOrgs, domainID, orgID)
       IN /\ ApplyOrgs(r)
          /\ last' = OrgCall("ListSubtreeUserIDs", domainID, orgID, NoUser, <<>>,
                             <<>>, NilID, r)
    /\ left' = left - 1

GetOrganizationTree(ctx) ==
    /\ left > 0
    /\ LET r == GetOrganizationTreeCall(CurrentOrgs, ctx)
       IN /\ ApplyOrgs(r)
          /\ last' = OrgCall("GetOrganizationTree", domainIDFromContext(ctx).id, NilID,
                             NoUser, <<>>, <<>>, NilID, r)
    /\ left' = left - 1

\* The rows First(ctx) can return for a user; NilID when there is none.
FirstRows(domainID, userID) ==
    IF MemberRows(orgMembers, domainID, userID) = {} THEN {NilID}
    ELSE MemberRows(orgMembers, domainID, userID)

GetPrimaryOrganizationID(domainID, userID, pick) ==
    /\ left > 0
    /\ pick \in FirstRows(domainID, userID)
    /\ LET r == GetPrimaryOrganizationIDCall(CurrentOrgs, domainID, userID, pick)
       IN /\ ApplyOrgs(r)
          /\ last' = OrgCall("GetPrimaryOrganizationID", domainID, r.id, userID, <<>>,
                             <<>>, NilID, r)
    /\ left' = left - 1

\* AddOrganizationMember by caller k, one storage call at a time.  The call
\* starts with the checks that read no row.
BeginAddOrganizationMember(k, ctx, organizationID, userID, isPrimary) ==
    LET dom == domainIDFromContext(ctx)
        err == IF dom.err # Nil THEN dom.err
               ELSE IF userID = NoUser THEN ErrUserIDRequired ELSE Nil
    IN /\ left > 0
       /\ Free(k)
       /\ IF err # Nil
          THEN /\ last' = OrgCall("AddOrganizationMember", dom.id, organizationID,
                                  userID, <<>>, <<>>, NilID,
                                  OrgResult(CurrentOrgs, err, NilID, <<>>))
               /\ UNCHANGED inflight
          ELSE /\ inflight' = [inflight EXCEPT ![k] =
                                 Flight("findOrganization", dom.id, organizationID,
                                        userID, isPrimary, FALSE)]
               /\ UNCHANGED last
       /\ left' = left - 1
       /\ UNCHANGED <<tenants, tenantUsers, domains, domainMembers, roles, orgs,
                      orgMembers, services, plugins>>

FindOrganization(k) ==
    LET c == inflight[k]
    IN /\ c.pc = "findOrganization"
       /\ IF OrgInDomain(CurrentOrgs, c.target, c.domainID) = NilID
          THEN /\ last' = OrgCall("AddOrganizationMember", c.domainID, c.target,
                                  c.userID, <<>>, <<>>, NilID,
                                  OrgResult(CurrentOrgs, ErrOrganizationNotFound,
                                            NilID, <<>>))
               /\ inflight' = [inflight EXCEPT ![k] = Idle]
          ELSE /\ inflight' = [inflight EXCEPT ![k].pc =
                                 IF c.flag THEN "demotePrimary" ELSE "createMember"]
               /\ UNCHANGED last
       /\ UNCHANGED <<tenants, tenantUsers, domains, domainMembers, roles, orgs,
                      orgMembers, left, services, plugins>>

DemotePrimary(k) ==
    LET c == inflight[k]
    IN /\ c.pc = "demotePrimary"
       /\ orgMembers' = Demoted(orgMembers, c.domainID, c.userID)
       /\ inflight' = [inflight EXCEPT ![k].pc = "createMember"]
       /\ UNCHANGED <<tenants, tenantUsers, domains, domainMembers, roles, orgs,
                      last, left, services, plugins>>

CreateOrganizationMember(k) ==
    LET c == inflight[k]
        taken == OrgMemberTaken(CurrentOrgs, c.target, c.userID)
        item == [domainID |-> c.domainID, orgID |-> c.target, userID |-> c.userID,
                 isPrimary |-> c.flag]
    IN /\ c.pc = "createMember"
       /\ orgMembers' = IF taken THEN orgMembers ELSE Append(orgMembers, item)
       /\ last' = OrgCall("AddOrganizationMember", c.domainID, c.target, c.userID,
                          <<>>, <<>>, NilID,
                          OrgResult(CurrentOrgs,
                                    IF taken THEN ErrMemberAlreadyExists ELSE Nil,
                                    c.target, <<>>))
       /\ inflight' = [inflight EXCEPT ![k] = Idle]
       /\ UNCHANGED <<tenants, tenantUsers, domains, domainMembers, roles, orgs, left, services, plugins>>

Resolve(userID, domainID, scopeType, scopeValue) ==
    /\ left > 0
    /\ LET f == ResolveCall(userID, domainID, scopeType, scopeValue)
       IN last' = [OrgCall("Resolve", domainID, NilID, userID, <<>>, <<>>, NilID,
                           OrgResult(CurrentOrgs, f.err, NilID, f.filter))
                      EXCEPT !.scope = scopeType]
    /\ left' = left - 1
    /\ UNCHANGED <<tenants, tenantUsers, domains, domainMembers, roles, orgs,
                   orgMembers, inflight, services, plugins>>

\* AddMember by caller k, one storage call at a time.
Returned(k, op, err) ==
    /\ last' = Call(op, inflight[k].target, inflight[k].userID, <<>>, <<>>,
                    IF err = Nil
                    THEN Published(Result(Current, Nil, inflight[k].target, NilID, FALSE),
                                   IF op = "AddMember" THEN EventTenantMemberAdded
                                   ELSE EventTenantMemberRemoved, "none")
                    ELSE Reject(Current, err, FALSE))
    /\ inflight' = [inflight EXCEPT ![k].pc = "done"]

BeginAddMember(k, isPlatform, tenantID, userID) ==
    /\ left > 0
    /\ Free(k)
    /\ IF requirePlatformDomain(isPlatform) # Nil
       THEN /\ last' = Call("AddMember", tenantID, userID, <<>>, <<>>,
                            Reject(Current, ErrPlatformDomainOnly, FALSE))
            /\ UNCHANGED inflight
       ELSE /\ inflight' = [inflight EXCEPT ![k] =
                              Flight("add:getTenant", NilID, tenantID, userID, FALSE, FALSE)]
            /\ UNCHANGED last
    /\ left' = left - 1
    /\ UNCHANGED <<tenants, tenantUsers, domains, domainMembers, roles, orgs, orgMembers, services, plugins>>

AddGetTenant(k) ==
    /\ inflight[k].pc = "add:getTenant"
    /\ IF TenantGet(Current, inflight[k].target) = NilID
       THEN Returned(k, "AddMember", ErrTenantNotFound)
       ELSE /\ inflight' = [inflight EXCEPT ![k].pc = "add:queryMembers"]
            /\ UNCHANGED last
    /\ UNCHANGED <<tenants, tenantUsers, domains, domainMembers, roles, orgs,
                   orgMembers, left, services, plugins>>

AddQueryMembers(k) ==
    /\ inflight[k].pc = "add:queryMembers"
    /\ IF MemberConflict(tenantUsers, inflight[k].target, inflight[k].userID)
       THEN Returned(k, "AddMember", ErrMemberExists)
       ELSE /\ inflight' = [inflight EXCEPT ![k].pc = "add:addMembership"]
            /\ UNCHANGED last
    /\ UNCHANGED <<tenants, tenantUsers, domains, domainMembers, roles, orgs,
                   orgMembers, left, services, plugins>>

AddDomainMembership(k) ==
    LET c == inflight[k]
        domainID == resolveDomainIDSafe(Current, tenants[c.target].code)
    IN /\ c.pc = "add:addMembership"
       /\ domainMembers' = IF domainID # NilID
                           THEN domainMembers \cup {<<domainID, c.userID>>}
                           ELSE domainMembers
       /\ inflight' = [inflight EXCEPT ![k].pc = "add:queryMembership",
                                       ![k].domainID = domainID]
       /\ UNCHANGED <<tenants, tenantUsers, domains, roles, orgs, orgMembers, last, left, services, plugins>>

AddQueryMembership(k) ==
    LET c == inflight[k]
        existing == FindRow(tenantUsers, c.target, c.userID)
    IN /\ c.pc = "add:queryMembership"
       /\ IF existing = NilID
          THEN /\ inflight' = [inflight EXCEPT ![k].pc = "add:queryDefault"]
               /\ UNCHANGED last
          ELSE IF ~tenantUsers[existing].deleted
                  /\ tenantUsers[existing].status = StatusActive
          THEN Returned(k, "AddMember", Nil)
          ELSE /\ inflight' = [inflight EXCEPT ![k].pc = "add:reactivate",
                                               ![k].row = existing]
               /\ UNCHANGED last
       /\ UNCHANGED <<tenants, tenantUsers, domains, domainMembers, roles, orgs,
                      orgMembers, left, services, plugins>>

AddReactivate(k) ==
    LET c == inflight[k]
    IN /\ c.pc = "add:reactivate"
       /\ tenantUsers' = [tenantUsers EXCEPT ![c.row].deleted = FALSE,
                                             ![c.row].status = StatusActive]
       /\ Returned(k, "AddMember", Nil)
       /\ UNCHANGED <<tenants, domains, domainMembers, roles, orgs, orgMembers, left, services, plugins>>

AddQueryDefault(k) ==
    /\ inflight[k].pc = "add:queryDefault"
    /\ inflight' = [inflight EXCEPT ![k].pc = "add:create",
                                    ![k].seen = HasDefault(tenantUsers, inflight[k].userID)]
    /\ UNCHANGED <<tenants, tenantUsers, domains, domainMembers, roles, orgs,
                   orgMembers, last, left, services, plugins>>

AddCreate(k) ==
    LET c == inflight[k]
    IN /\ c.pc = "add:create"
       /\ tenantUsers' = Append(tenantUsers,
                                NewRow(tenantUsers, c.target, c.userID,
                                       DefaultAsRead(c, tenantUsers), "member"))
       /\ last' = Call("AddMember", c.target, c.userID, <<>>, <<>>,
                       Published(Result(Current, Nil, c.target, NilID, FALSE),
                                 EventTenantMemberAdded, "none"))
       /\ inflight' = [inflight EXCEPT ![k].pc = "done", ![k].flag = TRUE]
       /\ UNCHANGED <<tenants, domains, domainMembers, roles, orgs, orgMembers, left, services, plugins>>

\* RemoveMember by caller k, one storage call at a time.
BeginRemoveMember(k, isPlatform, tenantID, userID) ==
    /\ left > 0
    /\ Free(k)
    /\ IF requirePlatformDomain(isPlatform) # Nil
       THEN /\ last' = Call("RemoveMember", tenantID, userID, <<>>, <<>>,
                            Reject(Current, ErrPlatformDomainOnly, FALSE))
            /\ UNCHANGED inflight
       ELSE /\ inflight' = [inflight EXCEPT ![k] =
                              Flight("remove:getTenant", NilID, tenantID, userID,
                                     FALSE, FALSE)]
            /\ UNCHANGED last
    /\ left' = left - 1
    /\ UNCHANGED <<tenants, tenantUsers, domains, domainMembers, roles, orgs, orgMembers, services, plugins>>

RemoveGetTenant(k) ==
    /\ inflight[k].pc = "remove:getTenant"
    /\ IF TenantGet(Current, inflight[k].target) = NilID
       THEN Returned(k, "RemoveMember", ErrTenantNotFound)
       ELSE /\ inflight' = [inflight EXCEPT ![k].pc = "remove:queryMembership"]
            /\ UNCHANGED last
    /\ UNCHANGED <<tenants, tenantUsers, domains, domainMembers, roles, orgs,
                   orgMembers, left, services, plugins>>

RemoveQueryMembership(k) ==
    LET c == inflight[k]
        membership == LiveRow(tenantUsers, c.target, c.userID)
    IN /\ c.pc = "remove:queryMembership"
       /\ IF membership = NilID
          THEN Returned(k, "RemoveMember", ErrMemberNotFound)
          ELSE /\ inflight' = [inflight EXCEPT ![k].pc = "remove:softDelete",
                                               ![k].row = membership,
                                               ![k].seen = tenantUsers[membership].isDefault]
               /\ UNCHANGED last
       /\ UNCHANGED <<tenants, tenantUsers, domains, domainMembers, roles, orgs,
                      orgMembers, left, services, plugins>>

RemoveSoftDelete(k) ==
    LET c == inflight[k]
    IN /\ c.pc = "remove:softDelete"
       /\ tenantUsers' = SoftDeleted(tenantUsers, c.row)
       /\ inflight' = [inflight EXCEPT ![k].pc = "remove:removeMembership"]
       /\ UNCHANGED <<tenants, domains, domainMembers, roles, orgs, orgMembers,
                      last, left, services, plugins>>

RemoveDomainMembership(k) ==
    LET c == inflight[k]
        domainID == resolveDomainIDSafe(Current, tenants[c.target].code)
    IN /\ c.pc = "remove:removeMembership"
       /\ domainMembers' = IF domainID # NilID
                           THEN domainMembers \ {<<domainID, c.userID>>}
                           ELSE domainMembers
       /\ IF c.seen
          THEN /\ inflight' = [inflight EXCEPT ![k].pc = "remove:queryAlternative"]
               /\ UNCHANGED last
          ELSE Returned(k, "RemoveMember", Nil)
       /\ UNCHANGED <<tenants, tenantUsers, domains, roles, orgs, orgMembers, left, services, plugins>>

RemoveQueryAlternative(k) ==
    LET c == inflight[k]
        alts == Alternatives(tenantUsers, c.userID)
    IN /\ c.pc = "remove:queryAlternative"
       /\ IF alts = {}
          THEN Returned(k, "RemoveMember", Nil)
          ELSE /\ inflight' = [inflight EXCEPT ![k].pc = "remove:promote",
                                               ![k].row = Oldest(tenantUsers, alts)]
               /\ UNCHANGED last
       /\ UNCHANGED <<tenants, tenantUsers, domains, domainMembers, roles, orgs,
                      orgMembers, left, services, plugins>>

\* saved: the write of the default flag succeeds; its error is dropped
RemovePromote(k, saved) ==
    LET c == inflight[k]
    IN /\ c.pc = "remove:promote"
       /\ tenantUsers' = IF saved THEN [tenantUsers EXCEPT ![c.row].isDefault = TRUE]
                         ELSE tenantUsers
       /\ last' = Call("RemoveMember", c.target, c.userID, <<>>, <<>>,
                       Published(Result(Current, Nil, c.target, NilID, ~saved),
                                 EventTenantMemberRemoved, "none"))
       /\ inflight' = [inflight EXCEPT ![k].pc = "done"]
       /\ UNCHANGED <<tenants, domains, domainMembers, roles, orgs, orgMembers, left, services, plugins>>

\* The process of caller k stops between two storage calls of its call.
Crash(k) ==
    /\ ~Free(k)
    /\ inflight' = [inflight EXCEPT ![k].pc = "crashed"]
    /\ UNCHANGED <<tenants, tenantUsers, domains, domainMembers, roles, orgs,
                   orgMembers, last, left, services, plugins>>

ListTenantsPage(isPlatform, page, pageSize, includeDeleted, refused) ==
    /\ left > 0
    /\ Read("ListTenantsPage", NilID, NoUser,
            ListTenantsPaged(Current, isPlatform, page, pageSize, includeDeleted, refused))

(***************************************************************************)
(* Plugin lifecycle: tenant/plugin.go and ou/plugin.go                     *)
(*                                                                         *)
(* The host application owns one service registry.  It registers the       *)
(* factories and the domain service; a plugin's Enable resolves what it    *)
(* needs from the registry, builds its service and registers its own       *)
(* entries.  The registry is the framework's: a key is registered once,    *)
(* and Register returns an error for a key that is taken, which is the     *)
(* error Enable checks after each of its Register calls.                   *)
(***************************************************************************)
ServiceKeyTenantFactory == "adapter.tenant.factory"
ServiceKeyOUFactory     == "adapter.ou.factory"
serviceKeyDomain        == "domain.service"
serviceKeyTenant        == "tenant.service"
serviceKeyTenantPlugin  == "domain.plugin.tenant"
serviceKeyOrganization  == "ou.organization.service"
serviceKeyScopeResolver == "datascope.resolver.ou"

ErrAppIncomplete        == "plugin app context is incomplete"
ErrResolveTenantFactory == "resolve tenant service factory"
ErrResolveDomainService == "resolve domain service"
ErrRegisterService      == "register service"
ErrNotInitialized       == "tenant service not initialized"
ErrPing                 == "ping"
ErrNilAppContext        == "ou plugin: app context is nil"
ErrNilServiceRegistry   == "ou plugin: service registry is nil"
ErrResolveOUFactory     == "resolve ou service factory"

\* The plugin instances of each kind that share the registry
Instances == 1..2

\* The application contexts Enable is given
Apps == {"nil", "no services", "ok"}

\* The keys the host application registers
HostKeys == {ServiceKeyTenantFactory, ServiceKeyOUFactory, serviceKeyDomain}

\* A plugin that was constructed and never enabled: every field is nil.
\* enabled records that an Enable of the instance returned nil.
NewTenantPlugin ==
    [factory |-> FALSE, domainSvc |-> FALSE, tenantSvc |-> FALSE, enabled |-> FALSE]

NewOUPlugin == [factory |-> FALSE, orgSvc |-> FALSE, enabled |-> FALSE]

Has(reg, key) == key \in reg

Register(reg, key) ==
    IF Has(reg, key) THEN [services |-> reg, err |-> ErrRegisterService]
    ELSE [services |-> reg \cup {key}, err |-> Nil]

EnableResult(reg, p, err) ==
    [services |-> reg, p |-> [p EXCEPT !.enabled = p.enabled \/ err = Nil], err |-> err]

TenantEnableCall(reg, p, app) ==
    IF app # "ok" THEN EnableResult(reg, p, ErrAppIncomplete)
    ELSE IF ~Has(reg, ServiceKeyTenantFactory)
    THEN EnableResult(reg, p, ErrResolveTenantFactory)
    ELSE LET p1 == [p EXCEPT !.factory = TRUE]
         IN IF ~Has(reg, serviceKeyDomain)
            THEN EnableResult(reg, p1, ErrResolveDomainService)
            ELSE LET p2 == [p1 EXCEPT !.domainSvc = TRUE, !.tenantSvc = TRUE]
                     r1 == Register(reg, serviceKeyTenant)
                     r2 == Register(r1.services, serviceKeyTenantPlugin)
                 IN IF r1.err # Nil THEN EnableResult(reg, p2, r1.err)
                    ELSE IF r2.err # Nil THEN EnableResult(r1.services, p2, r2.err)
                    ELSE EnableResult(r2.services, p2, Nil)

\* The service's Ping fails when it has no database client or its query fails.
HealthCheckCall(p, pingFails) ==
    IF ~p.tenantSvc THEN ErrNotInitialized
    ELSE IF pingFails THEN ErrPing ELSE Nil

OUEnableCall(reg, p, app) ==
    IF app = "nil" THEN EnableResult(reg, p, ErrNilAppContext)
    ELSE IF app = "no services" THEN EnableResult(reg, p, ErrNilServiceRegistry)
    ELSE IF ~Has(reg, ServiceKeyOUFactory)
    THEN EnableResult(reg, p, ErrResolveOUFactory)
    ELSE LET p1 == [p EXCEPT !.factory = TRUE, !.orgSvc = TRUE]
             r1 == Register(reg, serviceKeyOrganization)
             r2 == Register(r1.services, serviceKeyScopeResolver)
         IN IF r1.err # Nil THEN EnableResult(reg, p1, r1.err)
            ELSE IF r2.err # Nil THEN EnableResult(r1.services, p1, r2.err)
            ELSE EnableResult(r2.services, p1, Nil)

PluginCall(op, i, err) ==
    [Call(op, NilID, NoUser, <<>>, <<>>, Reject(Current, err, FALSE))
        EXCEPT !.instance = i]

PluginStoresUnchanged ==
    UNCHANGED <<tenants, tenantUsers, domains, domainMembers, roles, orgs, orgMembers,
                inflight>>

\* The host application registers a factory or the domain service.
RegisterService(key) ==
    /\ left > 0
    /\ services' = Register(services, key).services
    /\ last' = PluginCall("RegisterService", NilID, Register(services, key).err)
    /\ left' = left - 1
    /\ UNCHANGED plugins
    /\ PluginStoresUnchanged

TenantEnable(i, app) ==
    /\ left > 0
    /\ LET r == TenantEnableCall(services, plugins.tenant[i], app)
       IN /\ services' = r.services
          /\ plugins' = [plugins EXCEPT !.tenant[i] = r.p]
          /\ last' = PluginCall("TenantEnable", i, r.err)
    /\ left' = left - 1
    /\ PluginStoresUnchanged

HealthCheck(i, pingFails) ==
    /\ left > 0
    /\ last' = PluginCall("HealthCheck", i, HealthCheckCall(plugins.tenant[i], pingFails))
    /\ left' = left - 1
    /\ UNCHANGED <<services, plugins>>
    /\ PluginStoresUnchanged

OUEnable(i, app) ==
    /\ left > 0
    /\ LET r == OUEnableCall(services, plugins.ou[i], app)
       IN /\ services' = r.services
          /\ plugins' = [plugins EXCEPT !.ou[i] = r.p]
          /\ last' = PluginCall("OUEnable", i, r.err)
    /\ left' = left - 1
    /\ PluginStoresUnchanged

Stored ==
    /\ tenants = <<>>
    /\ tenantUsers = <<>>
    /\ domains = <<>>
    /\ domainMembers = {}
    /\ roles = {}
    /\ orgs = <<>>
    /\ orgMembers = <<>>
    /\ inflight = [k \in Callers |-> Idle]
    /\ services = {}
    /\ plugins = [tenant |-> [i \in Instances |-> NewTenantPlugin],
                  ou |-> [i \in Instances |-> NewOUPlugin]]
    /\ last = Call("none", NilID, NoUser, <<>>, <<>>, Reject(Current, Nil, FALSE))

Init == Stored /\ left = MaxOps

\* Calls in any acting context, in which any one storage or collaborator call
\* may fail.  A call rejected by the platform-domain gate makes no such call.
Next ==
    \/ \E p \in BOOLEAN, c \in RawCodes, n \in RawNames, a \in Actors :
          \E f \in CreateFaultsOf(p, c, n, a) : CreateTenant(p, c, n, a, <<>>, f)
    \/ \E p \in BOOLEAN, t \in 1..2, u \in Users, r \in RoleArgs :
          \E f \in IF p THEN AddFaults ELSE {"none"} : AddMember(p, t, u, r, f)
    \/ \E p \in BOOLEAN, t \in 1..2, u \in Users :
          \E f \in IF p THEN RemoveFaults ELSE {"none"} : RemoveMember(p, t, u, f)

Spec == Init /\ [][Next]_vars

\* Calls made in a platform-domain context in which no storage and no
\* collaborator call fails.
InitOK == Stored /\ left = MaxCalls

NextOK ==
    \/ \E c \in Codes, a \in {NoUser, "u1"} : CreateTenant(TRUE, c, <<"n">>, a, <<>>, "none")
    \/ \E t \in TenantIDs, u \in Users : AddMember(TRUE, t, u, "", "none")
    \/ \E t \in TenantIDs, u \in Users : RemoveMember(TRUE, t, u, "none")

SpecOK == InitOK /\ [][NextOK]_vars

\* Every operation of the tenant service in either acting context; in a
\* platform-domain context its main write or its Publish may fail.
InitGate == Stored /\ left = MaxGate

GateFaults(isPlatform, write) ==
    IF isPlatform THEN {"none", write, "publish"} ELSE {"none"}

NextGate ==
    \/ \E p \in BOOLEAN, c \in {<<"a">>, <<" ">>}, n \in {<<"n">>, <<" ">>},
          a \in {NoUser, "u1"} :
          \E f \in GateFaults(p, "commit") : CreateTenant(p, c, n, a, <<>>, f)
    \/ \E p \in BOOLEAN, t \in 1..2, n \in {<<>>, <<"m">>}, ref \in {<<>>, <<"b">>} :
          \E f \in GateFaults(p, "save") : UpdateTenant(p, t, n, ref, f)
    \/ \E p \in BOOLEAN, t \in 1..2 :
          \E f \in GateFaults(p, "save") : DeleteTenant(p, t, f)
    \/ \E p \in BOOLEAN, t \in 1..2, u \in {"u1", "u2"} :
          \E f \in GateFaults(p, "ensureMembership") : AddMember(p, t, u, "", f)
    \/ \E p \in BOOLEAN, t \in 1..2, u \in {"u1", "u2"} :
          \E f \in GateFaults(p, "softDelete") : RemoveMember(p, t, u, f)
    \/ \E p \in BOOLEAN, d \in BOOLEAN : ListTenants(p, d)
    \/ \E p \in BOOLEAN, t \in 1..2 : ListMembersRead(p, t)
    \/ \E p \in BOOLEAN, u \in {"u1", "u2"} : ListMyTenants(p, u)

SpecGate == InitGate /\ [][NextGate]_vars

\* Tenant administration in a platform-domain context with no call failing:
\* tenants with parent references, their update and soft delete, and the
\* delivery of user.deleted events.
InitAdmin == Stored /\ left = MaxAdmin

\* A tenant is created by an acting user or with a parent reference; it is
\* given a new name, which may be white space only, or a parent reference.
CreateRequests == {q \in {NoUser, "u1"} \X ParentRefs : q[1] = NoUser \/ q[2] = <<>>}

UpdateRequests ==
    {q \in {<<>>, <<"m">>, <<" ">>} \X ParentRefs : q[1] = <<>> \/ q[2] = <<>>}

NextAdmin ==
    \/ \E c \in {<<"a">>, <<"b">>}, q \in CreateRequests, f \in {"none", "codeIndex"} :
          CreateTenant(TRUE, c, <<"n">>, q[1], q[2], f)
    \/ \E t \in 1..2, q \in UpdateRequests : UpdateTenant(TRUE, t, q[1], q[2], "none")
    \/ \E t \in 1..2 : DeleteTenant(TRUE, t, "none")
    \/ \E t \in 1..2 : AddMember(TRUE, t, "u1", "", "none")
    \/ \E type \in PayloadTypes, u \in {"u1", "u2"} :
          OnUserDeleted(Payload(type, u), "none")

SpecAdmin == InitAdmin /\ [][NextAdmin]_vars

\* The organization tree of two domains: nodes are created under any node or
\* none, users are added to them, and the users of a subtree are listed.
InitOU == Stored /\ left = MaxOU

\* The request context of domain d
InDomain(d) == [ok |-> TRUE, raw |-> UUIDString(d)]

\* Most requests are made in domain 1 with a code and a name; a few are made
\* in domain 2, without a usable domain context, or with a blank code or name.
OrgCreateRequests ==
    ({InDomain(1)} \X (OrgCodes \ {<<" ">>}) \X {<<"n">>} \X {NilID, 1, 2})
        \cup ((Contexts \ {InDomain(1)}) \X {<<"a">>} \X {<<"n">>} \X {NilID, 1})
        \cup ({InDomain(1)} \X {<<" ">>} \X {<<"n">>} \X {NilID})
        \cup ({InDomain(1)} \X {<<"a">>} \X (OrgNames \ {<<"n">>}) \X {NilID})

OrgMemberRequests ==
    ({InDomain(1)} \X OrgIDs \X {"u1", "u2"} \X BOOLEAN)
        \cup ((Contexts \ {InDomain(1)}) \X {1} \X {"u1"} \X {TRUE})
        \cup ({InDomain(1)} \X {1} \X {NoUser} \X {FALSE})

NextOU ==
    \/ \E q \in OrgCreateRequests : CreateOrganization(q[1], q[2], q[3], q[4])
    \/ \E q \in OrgMemberRequests : AddOrganizationMember(q[1], q[2], q[3], q[4])
    \/ \E d \in OrgDomains, g \in OrgIDs : ListSubtreeUserIDs(d, g)
    \/ \E ctx \in Contexts : GetOrganizationTree(ctx)
    \/ \E u \in {NoUser, "u1"}, t \in ScopeTypes : Resolve(u, 1, t, <<"a">>)

SpecOU == InitOU /\ [][NextOU]_vars

\* Two callers add a user to the nodes of a domain at the same time, each
\* storage call of a call taking effect on its own, and the primary
\* organization of the user is asked for.
InitOURace == Stored /\ left = MaxOURace

NextOURace ==
    \/ \E c \in {<<"a">>, <<"b">>} : CreateOrganization(InDomain(1), c, <<"n">>, NilID)
    \/ \E k \in Callers, ctx \in {InDomain(1), [ok |-> FALSE, raw |-> <<>>]},
          g \in 1..2, primary \in BOOLEAN :
          BeginAddOrganizationMember(k, ctx, g, "u1", primary)
    \/ \E k \in Callers : FindOrganization(k)
    \/ \E k \in Callers : DemotePrimary(k)
    \/ \E k \in Callers : CreateOrganizationMember(k)
    \/ \E u \in {"u1", "u2"}, pick \in {NilID} \cup 1..2 :
          GetPrimaryOrganizationID(1, u, pick)

SpecOURace == InitOURace /\ [][NextOURace]_vars

\* Two callers add users to tenants at the same time, each storage call of
\* AddMember taking effect on its own; tenants are created and members removed
\* by calls that overlap no other.
InitRace == Stored /\ left = MaxRace

NextRace ==
    \/ \E c \in {<<"a">>, <<"b">>} : CreateTenant(TRUE, c, <<"n">>, NoUser, <<>>, "none")
    \/ \E k \in Callers, p \in BOOLEAN, t \in 1..3, u \in {"u1", "u2"} :
          BeginAddMember(k, p, t, u)
    \/ \E t \in 1..2 : RemoveMember(TRUE, t, "u1", "none")
    \/ \E k \in Callers : AddGetTenant(k)
    \/ \E k \in Callers : AddQueryMembers(k)
    \/ \E k \in Callers : AddDomainMembership(k)
    \/ \E k \in Callers : AddQueryMembership(k)
    \/ \E k \in Callers : AddReactivate(k)
    \/ \E k \in Callers : AddQueryDefault(k)
    \/ \E k \in Callers : AddCreate(k)

SpecRace == InitRace /\ [][NextRace]_vars

\* One caller removes members one storage call at a time and may stop
\* between two of them; tenants are created and members added by calls that
\* run to their end.
InitCrash == Stored /\ left = MaxCrash

NextCrash ==
    \/ \E c \in {<<"a">>, <<"b">>} : CreateTenant(TRUE, c, <<"n">>, NoUser, <<>>, "none")
    \/ \E t \in 1..2 : AddMember(TRUE, t, "u1", "", "none")
    \/ \E p \in BOOLEAN, t \in 1..3, u \in {"u1", "u2"} : BeginRemoveMember(1, p, t, u)
    \/ RemoveGetTenant(1)
    \/ RemoveQueryMembership(1)
    \/ RemoveSoftDelete(1)
    \/ RemoveDomainMembership(1)
    \/ RemoveQueryAlternative(1)
    \/ \E saved \in BOOLEAN : RemovePromote(1, saved)
    \/ Crash(1)

SpecCrash == InitCrash /\ [][NextCrash]_vars

\* Tenants are created and soft-deleted in a platform-domain context and
\* listed by pages.
InitPaged == Stored /\ left = MaxPaged

NextPaged ==
    \/ \E c \in {<<"a">>, <<"b">>, <<"c">>} :
          CreateTenant(TRUE, c, <<"n">>, NoUser, <<>>, "none")
    \/ \E t \in 1..2 : DeleteTenant(TRUE, t, "none")
    \/ \E p \in BOOLEAN, page \in Pages, pageSize \in PageSizes, d \in BOOLEAN,
          refused \in BOOLEAN : ListTenantsPage(p, page, pageSize, d, refused)

SpecPaged == InitPaged /\ [][NextPaged]_vars

\* The host registers its services and the plugin instances are enabled and
\* health-checked in any order.
InitPlugin == Stored /\ left = MaxPlugin

NextPlugin ==
    \/ \E key \in HostKeys : RegisterService(key)
    \/ \E i \in Instances, app \in Apps : TenantEnable(i, app)
    \/ \E i \in Instances, pingFails \in BOOLEAN : HealthCheck(i, pingFails)
    \/ \E i \in Instances, app \in Apps : OUEnable(i, app)

SpecPlugin == InitPlugin /\ [][NextPlugin]_vars

\* Membership calls in a platform-domain context on two tenants and two users
\* who share neither a username nor an email; a storage or collaborator call
\* of a call may fail.
InitMember == Stored /\ left = MaxMember

MemberUsers == {"u1", "u3"}

NextMember ==
    \/ \E c \in {<<"a">>, <<"b">>}, a \in {NoUser} \cup MemberUsers,
          f \in {"none", "ensureMembershipTx"} :
          CreateTenant(TRUE, c, <<"n">>, a, <<>>, f)
    \/ \E t \in 1..2, u \in MemberUsers, r \in RoleArgs,
          f \in {"none", "ensureMembership"} : AddMember(TRUE, t, u, r, f)
    \/ \E t \in 1..2, u \in MemberUsers,
          f \in {"none", "membershipQuery", "softDelete", "removeMembership"} :
          RemoveMember(TRUE, t, u, f)
    \/ \E t \in 1..2 : DeleteTenant(TRUE, t, "none")
    \/ \E type \in PayloadTypes, u \in MemberUsers, f \in {"none", "firstRow"} :
          OnUserDeleted(Payload(type, u), f)

SpecMember == InitMember /\ [][NextMember]_vars

(***************************************************************************)
(* Properties                                                              *)
(***************************************************************************)
After == Stores(tenants', tenantUsers', domains', domainMembers', roles')

StoresUnchanged == UNCHANGED <<tenants, tenantUsers, domains, domainMembers, roles>>

\* The live active membership rows of a user, and those that are the default.
ActiveRows(tu, u) ==
    {i \in 1..Len(tu) : tu[i].userID = u /\ ~tu[i].deleted /\ tu[i].status = StatusActive}

DefaultRows(tu, u) == {i \in ActiveRows(tu, u) : tu[i].isDefault}

\* No membership row stems from CreateTenant: every tenant was created without
\* an acting user, so every row was written by AddMember and RemoveMember.
OnlyAddRemove == \A i \in 1..Len(tenants) : tenants[i].ownerID = NoUser

\* C1: after any sequence of AddMember and RemoveMember calls, re-adds of a
\* removed member included, every user has at most one live active membership
\* with isDefault = true.
C1_AtMostOneDefault ==
    OnlyAddRemove => \A u \in Users : Cardinality(DefaultRows(tenantUsers, u)) <= 1

\* C2: a successful CreateTenant by an acting user who holds exactly one default
\* membership leaves that user with at most one default membership.
C2_CreateKeepsOneDefault ==
    [][(/\ last'.op = "CreateTenant"
        /\ last'.err = Nil
        /\ last'.userID # NoUser
        /\ Cardinality(DefaultRows(tenantUsers, last'.userID)) = 1)
       => Cardinality(DefaultRows(tenantUsers', last'.userID)) <= 1]_vars

\* C3: when no storage call fails, every user with a live active membership has
\* a live active membership with isDefault = true.
C3_MemberHasDefault ==
    \A u \in Users :
        ActiveRows(tenantUsers, u) # {} => DefaultRows(tenantUsers, u) # {}

\* C4: a CreateTenant that returns an error leaves no effect: no tenant row, no
\* domain, no role, no domain membership and no membership row of its making.
C4_CreateTenantAtomic ==
    [][(last'.op = "CreateTenant" /\ last'.err # Nil) => StoresUnchanged]_vars

\* C5: a CreateTenant whose trimmed code is the code of an existing tenant fails
\* and changes nothing; when it passes the gate and the validation and no
\* storage call fails, the error is ErrTenantCodeExists.
C5_SecondCreateSameCode ==
    [][(/\ last'.op = "CreateTenant"
        /\ \E i \in 1..Len(tenants) : tenants[i].code = TrimSpace(last'.code))
       => /\ last'.err # Nil
          /\ StoresUnchanged
          /\ (/\ last'.err \notin {ErrPlatformDomainOnly, ErrInvalidTenant}
              /\ ~last'.failed) => last'.err = ErrTenantCodeExists]_vars

\* C5 witness: a create was refused with ErrTenantCodeExists while the first
\* tenant of that code has an owner membership.
C5_Witness ==
    /\ last.op = "CreateTenant"
    /\ last.err = ErrTenantCodeExists
    /\ \E i \in 1..Len(tenants) :
          /\ tenants[i].code = TrimSpace(last.code)
          /\ tenants[i].ownerID # NoUser
          /\ ActiveRows(tenantUsers, tenants[i].ownerID) # {}

\* C6: after a successful CreateTenant with acting user U, IsMember(tenant, U)
\* is true and U has a live active row in the new tenant with role
\* "tenant_admin" and isDefault = true; without an acting user the call creates
\* no membership row and no domain membership.
C6_OwnerMembership ==
    [][(last'.op = "CreateTenant" /\ last'.err = Nil)
       => IF last'.userID # NoUser
          THEN /\ IsMember(After, last'.tenantID, last'.userID) =
                      [ok |-> TRUE, err |-> Nil]
               /\ \E i \in ActiveRows(tenantUsers', last'.userID) :
                     /\ tenantUsers'[i].tenantID = last'.tenantID
                     /\ tenantUsers'[i].role = "tenant_admin"
                     /\ tenantUsers'[i].isDefault
          ELSE /\ tenantUsers' = tenantUsers
               /\ domainMembers' = domainMembers]_vars

\* C6 witness: a tenant was just created by a user who already had a default
\* membership, and the creator is a member of the new tenant.
C6_Witness ==
    /\ last.op = "CreateTenant"
    /\ last.err = Nil
    /\ last.userID # NoUser
    /\ IsMember(Current, last.tenantID, last.userID).ok
    /\ \E i \in ActiveRows(tenantUsers, last.userID) :
          tenantUsers[i].tenantID # last.tenantID

\* C7 as stated: after a successful CreateTenant(code, name), GetTenantByCode
\* with the code as given returns the tenant with the code and name as given and
\* the domain id of GetDomainID(code) and of CreateTenant.
C7_RoundTripAsGiven ==
    (last.op = "CreateTenant" /\ last.err = Nil)
    => LET g == GetTenantByCode(Current, last.code)
       IN /\ g.err = Nil
          /\ g.dto.code = last.code
          /\ g.dto.name = last.name
          /\ g.dto.domainID # NilID
          /\ g.dto.domainID = GetDomainID(Current, last.code).id
          /\ g.dto.domainID = last.domainID

\* C7 amended: after a successful CreateTenant(code, name), GetTenantByCode with
\* the trimmed code returns the tenant with the trimmed code and the trimmed
\* name, and a non-nil domain id equal to GetDomainID(trimmed code) and to the
\* domain id CreateTenant returned.
C7_RoundTripTrimmed ==
    (last.op = "CreateTenant" /\ last.err = Nil)
    => LET g == GetTenantByCode(Current, TrimSpace(last.code))
       IN /\ g.err = Nil
          /\ g.dto.id = last.tenantID
          /\ g.dto.code = TrimSpace(last.code)
          /\ g.dto.name = TrimSpace(last.name)
          /\ g.dto.domainID # NilID
          /\ GetDomainID(Current, TrimSpace(last.code)) =
                 [id |-> g.dto.domainID, err |-> Nil]
          /\ g.dto.domainID = last.domainID

\* C7 witness: a tenant was just created from a code and a name with white
\* space around them, and is found under the trimmed code.
C7_Witness ==
    /\ last.op = "CreateTenant"
    /\ last.err = Nil
    /\ TrimSpace(last.code) # last.code
    /\ TrimSpace(last.name) # last.name
    /\ GetTenantByCode(Current, TrimSpace(last.code)).err = Nil

SameIdentityMember(tu, t, u) ==
    \E i \in 1..Len(tu), v \in Users \ {u} :
        /\ tu[i].tenantID = t
        /\ tu[i].userID = v
        /\ ~tu[i].deleted
        /\ tu[i].status = StatusActive
        /\ \/ UserInfo(v).Username = UserInfo(u).Username
           \/ UserInfo(v).Email = UserInfo(u).Email

\* C9: an AddMember(T, U) on an existing tenant fails with ErrMemberExists and
\* writes no membership row and no domain membership when another live active
\* member of T has U's username or email, and succeeds when none has, whoever
\* is a member of the other tenants.
C9_IdentityConflict ==
    [][(last'.op = "AddMember" /\ last'.tenantID \in 1..Len(tenants))
       => IF SameIdentityMember(tenantUsers, last'.tenantID, last'.userID)
          THEN /\ last'.err = ErrMemberExists
               /\ tenantUsers' = tenantUsers
               /\ domainMembers' = domainMembers
          ELSE /\ last'.err = Nil
               /\ \E i \in ActiveRows(tenantUsers', last'.userID) :
                     tenantUsers'[i].tenantID = last'.tenantID]_vars

\* C9 witness: a user who is a member of one tenant was just refused, with
\* ErrMemberExists, by another tenant that has a member of the same email only.
C9_Witness ==
    /\ last.op = "AddMember"
    /\ last.err = ErrMemberExists
    /\ \E i \in ActiveRows(tenantUsers, last.userID) :
          tenantUsers[i].tenantID # last.tenantID
    /\ \E i \in 1..Len(tenantUsers) :
          /\ tenantUsers[i].tenantID = last.tenantID
          /\ ~tenantUsers[i].deleted
          /\ UserInfo(tenantUsers[i].userID).Email = UserInfo(last.userID).Email
          /\ UserInfo(tenantUsers[i].userID).Username # UserInfo(last.userID).Username

C11_OneRowPerPair ==
    [][/\ \A i, j \in 1..Len(tenantUsers') :
             (/\ tenantUsers'[i].tenantID = tenantUsers'[j].tenantID
              /\ tenantUsers'[i].userID = tenantUsers'[j].userID) => i = j
       /\ \A r \in 1..Len(tenantUsers) :
             (/\ last'.op = "AddMember"
              /\ last'.err = Nil
              /\ tenantUsers[r].tenantID = last'.tenantID
              /\ tenantUsers[r].userID = last'.userID
              /\ tenantUsers[r].deleted)
             => /\ Len(tenantUsers') = Len(tenantUsers)
                /\ ~tenantUsers'[r].deleted
                /\ tenantUsers'[r].status = StatusActive]_vars

\* C11 witness: every row was written by AddMember and RemoveMember, and the
\* user just added holds two live default rows, the one in the tenant of the
\* call being the older: that row was removed and has been reactivated.
C11_Witness ==
    /\ OnlyAddRemove
    /\ last.op = "AddMember"
    /\ last.err = Nil
    /\ \E i, j \in DefaultRows(tenantUsers, last.userID) :
          /\ tenantUsers[i].tenantID = last.tenantID
          /\ tenantUsers[i].createdAt < tenantUsers[j].createdAt

\* C12: in every reachable state, each of CreateTenant, UpdateTenant,
\* DeleteTenant, ListTenants, AddMember, RemoveMember and ListMembers, called
\* outside a platform-domain context with any arguments, valid or not, returns
\* ErrPlatformDomainOnly, leaves the stores as they are and publishes no event;
\* ListMyTenants returns outside a platform-domain context what it returns
\* inside one, without error.
C12_PlatformGate ==
    LET refused == Reject(Current, ErrPlatformDomainOnly, FALSE)
        none == [err |-> ErrPlatformDomainOnly, out |-> {}]
    IN /\ \A c \in RawCodes, n \in RawNames, a \in Actors, ref \in ParentRefs,
             f \in {"none", "publish"} :
             CreateTenantCall(Current, FALSE, c, n, a, ref, f) = refused
       /\ \A t \in TenantIDs, n \in RawNames, ref \in ParentRefs, f \in UpdateFaults :
             UpdateTenantCall(Current, FALSE, t, n, ref, f) = refused
       /\ \A t \in TenantIDs, f \in DeleteFaults :
             DeleteTenantCall(Current, FALSE, t, f) = refused
       /\ \A t \in TenantIDs, u \in Users, r \in RoleArgs, f \in {"none", "publish"} :
             AddMemberCall(Current, FALSE, t, u, r, f) = refused
       /\ \A t \in TenantIDs, u \in Users, f \in {"none", "publish"} :
             RemoveMemberCall(Current, FALSE, t, u, f) = refused
       /\ \A d \in BOOLEAN : ListTenantsCall(Current, FALSE, d) = none
       /\ \A t \in TenantIDs : ListMembersCall(Current, FALSE, t) = none
       /\ \A u \in Users :
             /\ ListMyTenantsCall(Current, FALSE, u).err = Nil
             /\ ListMyTenantsCall(Current, FALSE, u) = ListMyTenantsCall(Current, TRUE, u)

\* C12 witness: a RemoveMember of a live member was just refused with
\* ErrPlatformDomainOnly, and ListMyTenants lists the tenant for that member.
C12_Witness ==
    /\ last.op = "RemoveMember"
    /\ last.err = ErrPlatformDomainOnly
    /\ last.events = <<>>
    /\ \E i \in ActiveRows(tenantUsers, last.userID) :
          tenantUsers[i].tenantID = last.tenantID
    /\ ListMyTenantsCall(Current, FALSE, last.userID).out # {}

\* A request string with no character other than white space.
Blank(x) == \A i \in 1..Len(x) : x[i] = " "

\* C13: a CreateTenant whose code or name is empty after trimming fails,
\* changes no store and publishes no event, and its error is ErrInvalidTenant
\* unless the platform-domain gate has refused the call first.
C13_InvalidTenant ==
    [][(last'.op = "CreateTenant" /\ (Blank(last'.code) \/ Blank(last'.name)))
       => /\ last'.err \in {ErrInvalidTenant, ErrPlatformDomainOnly}
          /\ StoresUnchanged
          /\ last'.events = <<>>
          /\ \A a \in Actors, f \in {"none", "commit", "publish"} :
                CreateTenantCall(Current, TRUE, last'.code, last'.name, a,
                                 last'.ref, f)
                    = Reject(Current, ErrInvalidTenant, FALSE)]_vars

\* C13 witness: a CreateTenant with a valid name and a code of white space
\* was just refused with ErrInvalidTenant while a tenant exists.
C13_Witness ==
    /\ last.op = "CreateTenant"
    /\ last.err = ErrInvalidTenant
    /\ Blank(last.code)
    /\ last.code # <<>>
    /\ ~Blank(last.name)
    /\ tenants # <<>>

\* The live tenants a parent reference names, by code or by the text of the id.
Named(ref) ==
    {i \in 1..Len(tenants) :
        /\ ~tenants[i].deleted
        /\ tenants[i].code = ref \/ UUIDString(i) = ref}

\* The outcome C14 claims for a CreateTenant or an UpdateTenant of an existing
\* tenant whose parent reference ref is not empty: the call fails with
\* ErrParentTenantInvalid and changes no tenant when ref names no live tenant
\* or names the tenant being updated, and no tenant is its own parent.
ParentChecked(ref) ==
    /\ (/\ last'.op \in {"CreateTenant", "UpdateTenant"}
        /\ ref # <<>>
        /\ last'.op = "UpdateTenant" => last'.tenantID \in 1..Len(tenants)
        /\ \/ Named(ref) = {}
           \/ last'.op = "UpdateTenant" /\ Named(ref) = {last'.tenantID})
       => /\ last'.err = ErrParentTenantInvalid
          /\ tenants' = tenants
    /\ \A i \in 1..Len(tenants') : tenants'[i].parentID # i

\* C14 as stated: the parent reference is taken as given.
C14_ParentAsGiven == [][ParentChecked(last'.ref)]_vars

\* C14 amended: the parent reference is taken without the white space around
\* it, and a reference of white space only is no reference.
C14_ParentTrimmed == [][ParentChecked(TrimSpace(last'.ref))]_vars

\* C14 witness: an UpdateTenant of a live tenant was just refused with
\* ErrParentTenantInvalid for a reference that is the text of the tenant's own
\* id, while a soft-deleted tenant exists.
C14_Witness ==
    /\ last.op = "UpdateTenant"
    /\ last.err = ErrParentTenantInvalid
    /\ last.tenantID \in 1..Len(tenants)
    /\ ~tenants[last.tenantID].deleted
    /\ last.ref = UUIDString(last.tenantID)
    /\ \E i \in 1..Len(tenants) : tenants[i].deleted

\* C15: an UpdateTenant of an id that no tenant has, or whose tenant is
\* soft-deleted, fails with ErrTenantNotFound and changes no store.
C15_UpdateNotFound ==
    [][(/\ last'.op = "UpdateTenant"
        /\ \/ last'.tenantID \notin 1..Len(tenants)
           \/ tenants[last'.tenantID].deleted)
       => /\ last'.err = ErrTenantNotFound
          /\ StoresUnchanged]_vars

\* C16: a successful DeleteTenant(T) sets the deleted mark of T and nothing
\* else: no tenant row is removed or otherwise changed, and the membership
\* rows, the domains, the domain memberships, the roles, the organizations and
\* the organization memberships are as before.
C16_DeleteOnlyMarks ==
    [][(last'.op = "DeleteTenant" /\ last'.err = Nil)
       => /\ last'.tenantID \in 1..Len(tenants)
          /\ tenants' = [tenants EXCEPT ![last'.tenantID].deleted = TRUE]
          /\ UNCHANGED <<tenantUsers, domains, domainMembers, roles, orgs,
                         orgMembers>>]_vars

\* C16 witness: a tenant with a live membership row, a domain and a domain
\* membership was just soft-deleted, and all three are still there.
C16_Witness ==
    /\ last.op = "DeleteTenant"
    /\ last.err = Nil
    /\ tenants[last.tenantID].deleted
    /\ \E i \in 1..Len(tenantUsers) :
          /\ tenantUsers[i].tenantID = last.tenantID
          /\ ~tenantUsers[i].deleted
          /\ <<ResolveDomain(Current, tenants[last.tenantID].code),
               tenantUsers[i].userID>> \in domainMembers

\* C17: when the handler of a user.deleted event for user U has returned, U
\* has no membership row that is not soft-deleted.
C17_UserDeletedCleansUp ==
    [][last'.op = "OnUserDeleted"
       => \A i \in 1..Len(tenantUsers') :
             tenantUsers'[i].userID = last'.userID => tenantUsers'[i].deleted]_vars

\* The event name the tenant plugin documents for each mutating operation.
EventOf(op) ==
    CASE op = "CreateTenant" -> "tenant.created"
      [] op = "UpdateTenant" -> "tenant.updated"
      [] op = "DeleteTenant" -> "tenant.deleted"
      [] op = "AddMember"    -> "tenant.member.added"
      [] op = "RemoveMember" -> "tenant.member.removed"
      [] OTHER               -> ""

\* The call that was just made in a platform context, as it goes when no step
\* of it fails.
Unfailing ==
    CASE last'.op = "CreateTenant" ->
           CreateTenantCall(Current, TRUE, last'.code, last'.name, last'.userID,
                            last'.ref, "none")
      [] last'.op = "UpdateTenant" ->
           UpdateTenantCall(Current, TRUE, last'.tenantID, last'.name, last'.ref, "none")
      [] last'.op = "DeleteTenant" ->
           DeleteTenantCall(Current, TRUE, last'.tenantID, "none")
      [] last'.op = "AddMember" ->
           AddMemberCall(Current, TRUE, last'.tenantID, last'.userID, "", "none")
      [] last'.op = "RemoveMember" ->
           RemoveMemberCall(Current, TRUE, last'.tenantID, last'.userID, "none")
      [] OTHER -> Reject(Current, Nil, FALSE)

\* C18: a successful CreateTenant, UpdateTenant, DeleteTenant, AddMember or
\* RemoveMember publishes exactly one event, of the name that matches the
\* operation; a call that returns an error, and a read, publishes none; and
\* when Publish fails the call still succeeds, with the result and the stores
\* of the same call whose Publish succeeds.
C18_OneEventAfterCommit ==
    [][/\ (last'.err = Nil /\ EventOf(last'.op) # "")
          => last'.events = <<EventOf(last'.op)>>
       /\ (last'.err # Nil \/ EventOf(last'.op) = "") => last'.events = <<>>
       /\ last'.pubFailed
          => /\ last'.err = Nil
             /\ EventOf(last'.op) # ""
             /\ Unfailing.err = Nil
             /\ Unfailing.domainID = last'.domainID
             /\ Unfailing.s = After]_vars

\* C18 witness: a RemoveMember whose Publish failed has just returned without
\* error, its one tenant.member.removed event handed to the bus and the
\* membership row soft-deleted.
C18_Witness ==
    /\ last.op = "RemoveMember"
    /\ last.err = Nil
    /\ last.pubFailed
    /\ last.events = <<"tenant.member.removed">>
    /\ \E i \in 1..Len(tenantUsers) :
          /\ tenantUsers[i].tenantID = last.tenantID
          /\ tenantUsers[i].userID = last.userID
          /\ tenantUsers[i].deleted

\* Node i is node n or a descendant of n by the parent references.
RECURSIVE IsUnder(_, _, _)
IsUnder(og, i, n) ==
    \/ i = n
    \/ og[i].parentID # NilID /\ IsUnder(og, og[i].parentID, n)

\* The users with a membership in node n or in a descendant of n.
SubtreeUsers(domainID, n) ==
    {orgMembers[k].userID : k \in {j \in 1..Len(orgMembers) :
        /\ orgMembers[j].domainID = domainID
        /\ IsUnder(orgs, orgMembers[j].orgID, n)}}

\* C19: a ListSubtreeUserIDs(domain, N) that succeeds returns, each once, the
\* users with a membership in N or in a descendant of N by the parent
\* references, and no other user.
C19_SubtreeByParents ==
    [][(last'.op = "ListSubtreeUserIDs" /\ last'.err = Nil)
       => /\ {last'.out[k] : k \in 1..Len(last'.out)}
               = SubtreeUsers(last'.domainID, last'.orgID)
          /\ \A j, k \in 1..Len(last'.out) : last'.out[j] = last'.out[k] => j = k]_vars

\* The codes of the ancestors of node i from the root down, then the code of
\* i, joined by "/".
RECURSIVE CodesFromRoot(_, _)
CodesFromRoot(og, i) ==
    IF og[i].parentID = NilID THEN og[i].code
    ELSE CodesFromRoot(og, og[i].parentID) \o <<"/">> \o og[i].code

\* C20: after every call the path of each node is the codes of its ancestors
\* from the root down and its own code, joined by "/", and no call changes the
\* path of a node that exists.
C20_PathIsAncestry ==
    [][/\ Len(orgs') >= Len(orgs)
       /\ \A i \in 1..Len(orgs) : orgs'[i].path = orgs[i].path
       /\ \A i \in 1..Len(orgs') : orgs'[i].path = CodesFromRoot(orgs', i)]_vars

\* C20 witness: a CreateOrganization has just made a node whose parent has a
\* parent, so its path joins three codes.
C20_Witness ==
    /\ last.op = "CreateOrganization"
    /\ last.err = Nil
    /\ last.orgID = Len(orgs)
    /\ orgs[last.orgID].parentID # NilID
    /\ orgs[orgs[last.orgID].parentID].parentID # NilID
    /\ Len(orgs[last.orgID].path) >= 5

\* The nodes of a domain under the same parent (NilID: the roots).
Siblings(og, domainID, parentID) ==
    {i \in 1..Len(og) : og[i].domainID = domainID /\ og[i].parentID = parentID}

\* A CreateOrganization that has passed the checks of its context, its code,
\* its name and its parent.
CreateReachesStore ==
    /\ last'.op = "CreateOrganization"
    /\ last'.err \notin {ErrDomainContextMissing, ErrInvalidDomainID,
                         ErrCodeAndNameRequired, ErrOrganizationNotFound}

\* C21: no two nodes of a domain have the same path; a CreateOrganization
\* whose code is that of a sibling under the same parent fails and creates no
\* node, and one whose code differs from the codes of all its siblings is not
\* refused for its path.
C21_PathsUnique ==
    [][/\ \A i, j \in 1..Len(orgs') :
            (orgs'[i].domainID = orgs'[j].domainID /\ orgs'[i].path = orgs'[j].path)
                => i = j
       /\ CreateReachesStore
          => IF \E i \in Siblings(orgs, last'.domainID, last'.parentID) :
                    orgs[i].code = TrimSpace(last'.code)
             THEN last'.err # Nil /\ orgs' = orgs
             ELSE last'.err = Nil]_vars

\* C22: a CreateOrganization with a parent id that is not the id of a node of
\* the caller's domain (no such node, or a node of another domain) fails and
\* creates no node; when the call has a domain context, a code and a name, the
\* error is ErrOrganizationNotFound.
C22_ParentInDomain ==
    [][(/\ last'.op = "CreateOrganization"
        /\ last'.parentID # NilID
        /\ \/ last'.parentID \notin 1..Len(orgs)
           \/ orgs[last'.parentID].domainID # last'.domainID)
       => /\ last'.err # Nil
          /\ orgs' = orgs
          /\ (last'.domainID # NilID /\ ~Blank(last'.code) /\ ~Blank(last'.name))
                => last'.err = ErrOrganizationNotFound]_vars

\* C22 witness: a CreateOrganization in one domain has just been refused with
\* ErrOrganizationNotFound for a parent that is a node of the other domain.
C22_Witness ==
    /\ last.op = "CreateOrganization"
    /\ last.err = ErrOrganizationNotFound
    /\ last.domainID # NilID
    /\ last.parentID \in 1..Len(orgs)
    /\ orgs[last.parentID].domainID # last.domainID

\* The nodes of a domain.
NodesOf(og, domainID) == {i \in 1..Len(og) : og[i].domainID = domainID}

\* How many times node i stands in the forest t, as a root or as a child.
Appearances(t, i) ==
    Cardinality({k \in 1..Len(t.roots) : t.roots[k] = i})
        + Cardinality({q \in (DOMAIN t.children) \X (1..Len(orgs)) :
                          q[2] \in 1..Len(t.children[q[1]]) /\ t.children[q[1]][q[2]] = i})

\* C23: the forest GetOrganizationTree returns has every node of the domain
\* of the context exactly once and no other node: a node without a parent in
\* the domain is a root, any other node is a child of its parent.  A domain
\* of one root and two nodes under it gives one root with two children that
\* have no children.
C23_ForestOfDomain ==
    [][(last'.op = "GetOrganizationTree" /\ last'.err = Nil)
       => LET t == last'.out
              D == NodesOf(orgs, last'.domainID)
          IN /\ DOMAIN t.children = D
             /\ SeqRange(t.roots) \subseteq D
             /\ \A p \in D : SeqRange(t.children[p]) \subseteq D
             /\ \A i \in D :
                   /\ Appearances(t, i) = 1
                   /\ IF orgs[i].parentID = NilID \/ orgs[i].parentID \notin D
                      THEN i \in SeqRange(t.roots)
                      ELSE i \in SeqRange(t.children[orgs[i].parentID])
             /\ (/\ Cardinality(D) = 3
                 /\ \E r \in D : \A i \in D \ {r} : orgs[i].parentID = r)
                => /\ Len(t.roots) = 1
                   /\ Len(t.children[t.roots[1]]) = 2
                   /\ \A i \in SeqRange(t.children[t.roots[1]]) : t.children[i] = <<>>]_vars

\* C23 witness: GetOrganizationTree has just returned one root with two
\* children that have no children.
C23_Witness ==
    /\ last.op = "GetOrganizationTree"
    /\ last.err = Nil
    /\ Len(last.out.roots) = 1
    /\ Len(last.out.children[last.out.roots[1]]) = 2
    /\ \A i \in SeqRange(last.out.children[last.out.roots[1]]) :
          last.out.children[i] = <<>>

\* The primary membership rows of a user in a domain.
PrimaryRows(om, domainID, userID) ==
    {i \in 1..Len(om) :
        om[i].domainID = domainID /\ om[i].userID = userID /\ om[i].isPrimary}

\* C24: after every AddOrganizationMember call, failed or not, the calls being
\* made one after the other, a user has at most one primary membership row in
\* a domain.
C24_OnePrimary ==
    \A d \in OrgDomains, u \in Users : Cardinality(PrimaryRows(orgMembers, d, u)) <= 1

\* C24 witness: an AddOrganizationMember has just added a primary membership
\* for a user who has a membership in another node of the domain.
C24_Witness ==
    /\ last.op = "AddOrganizationMember"
    /\ last.err = Nil
    /\ orgMembers[Len(orgMembers)].isPrimary
    /\ \E i \in 1..(Len(orgMembers) - 1) :
          /\ orgMembers[i].userID = last.userID
          /\ orgMembers[i].domainID = last.domainID
          /\ orgMembers[i].orgID # last.orgID
          /\ ~orgMembers[i].isPrimary

\* C25: GetPrimaryOrganizationID for a user with a membership in the domain
\* returns without error: the organization of a membership flagged primary
\* when there is one, whether or not the user has more than one, and the
\* organization of one of the user's memberships when none is flagged.
C25_PrimaryOrAny ==
    [][(/\ last'.op = "GetPrimaryOrganizationID"
        /\ \E i \in 1..Len(orgMembers) :
              orgMembers[i].domainID = last'.domainID /\ orgMembers[i].userID = last'.userID)
       => /\ last'.err = Nil
          /\ \E i \in 1..Len(orgMembers) :
                /\ orgMembers[i].domainID = last'.domainID
                /\ orgMembers[i].userID = last'.userID
                /\ orgMembers[i].orgID = last'.orgID
                /\ orgMembers[i].isPrimary
                   \/ PrimaryRows(orgMembers, last'.domainID, last'.userID) = {}]_vars

\* C26: Resolve returns no error; for the scope kinds OU self and OU subtree
\* it returns a filter of the kind asked for and of the user given, for every
\* other kind no filter; the result depends on the arguments only and no
\* stored row changes.
C26_ResolveByKind ==
    [][last'.op = "Resolve"
       => /\ last'.err = Nil
          /\ IF last'.scope \in {"OU_SELF", "OU_SUBTREE"}
             THEN /\ ~last'.out.isNil
                  /\ last'.out.Type = last'.scope
                  /\ last'.out.UserID = last'.userID
             ELSE last'.out.isNil
          /\ StoresUnchanged
          /\ UNCHANGED <<orgs, orgMembers>>]_vars

\* C26 witness: Resolve has just returned a filter of kind OU subtree for user
\* u1 while the user has an organization membership.
C26_Witness ==
    /\ last.op = "Resolve"
    /\ last.scope = "OU_SUBTREE"
    /\ last.userID = "u1"
    /\ ~last.out.isNil
    /\ last.out.Type = "OU_SUBTREE"
    /\ \E i \in 1..Len(orgMembers) : orgMembers[i].userID = "u1"

\* Both callers have completed an AddMember of the same user to different
\* tenants, each having found no default membership of the user and created
\* a row.
BothAddedUnaware ==
    /\ \A k \in Callers : /\ inflight[k].pc = "done"
                          /\ inflight[k].flag
                          /\ ~inflight[k].seen
    /\ inflight[1].userID = inflight[2].userID
    /\ inflight[1].target # inflight[2].target

\* C27: when two AddMember calls of one user to two tenants have each read
\* that the user has no default membership before they save their rows, both
\* rows are saved with isDefault true.
C27_BothDefault ==
    BothAddedUnaware
        => \A k \in Callers :
              \E i \in 1..Len(tenantUsers) :
                  /\ tenantUsers[i].tenantID = inflight[k].target
                  /\ tenantUsers[i].userID = inflight[k].userID
                  /\ tenantUsers[i].isDefault

\* C27 witness: the two calls are over and the user has two live default
\* memberships, one in each tenant.
C27_Witness ==
    /\ BothAddedUnaware
    /\ Cardinality({i \in 1..Len(tenantUsers) :
                       /\ tenantUsers[i].userID = inflight[1].userID
                       /\ tenantUsers[i].isDefault
                       /\ ~tenantUsers[i].deleted}) = 2

\* The other live active memberships of the user of membership row.
OtherMemberships(tu, row) ==
    {i \in 1..Len(tu) : /\ i # row
                        /\ tu[i].userID = tu[row].userID
                        /\ ~tu[i].deleted
                        /\ tu[i].status = StatusActive}

\* C28: the soft delete of RemoveMember is a step of its own: when it removes
\* the default membership of a user who has other live active memberships,
\* none of them default, the state it leaves has the membership soft-deleted
\* and those other memberships still without a default, the call not yet
\* returned.  A crash of the call changes no row, and a promotion write that
\* fails changes no row and the call returns without error.
C28_RemoveInTwoSteps ==
    [][\A k \in Callers :
          LET c == inflight[k]
              others == OtherMemberships(tenantUsers, c.row)
          IN /\ (/\ c.pc = "remove:softDelete"
                 /\ inflight'[k].pc = "remove:removeMembership"
                 /\ c.seen
                 /\ others # {}
                 /\ \A i \in others : ~tenantUsers[i].isDefault)
                => /\ tenantUsers'[c.row].deleted
                   /\ OtherMemberships(tenantUsers', c.row) = others
                   /\ \A i \in others : ~tenantUsers'[i].isDefault
             /\ (~Free(k) /\ inflight'[k].pc = "crashed") => StoresUnchanged
             /\ (c.pc = "remove:promote" /\ inflight'[k].pc = "done" /\ last'.failed)
                => /\ tenantUsers' = tenantUsers
                   /\ last'.err = Nil]_vars

\* C28 witness: a RemoveMember that removed the default membership of a user
\* has crashed before its promotion write: the membership is soft-deleted and
\* the user has another live active membership, none of them default.
C28_Witness ==
    /\ inflight[1].pc = "crashed"
    /\ inflight[1].seen
    /\ \E r \in 1..Len(tenantUsers) :
          /\ tenantUsers[r].tenantID = inflight[1].target
          /\ tenantUsers[r].userID = inflight[1].userID
          /\ tenantUsers[r].deleted
          /\ OtherMemberships(tenantUsers, r) # {}
          /\ \A i \in OtherMemberships(tenantUsers, r) : ~tenantUsers[i].isDefault

\* C29: every result of ListTenants reports page 1 for a page below 1 and the
\* page asked for otherwise, page size 20 for a size below 1, 100 for a size
\* above 100 and the size asked for otherwise, as total pages the least number
\* of pages of that size that hold the total, and no more tenants than the
\* page size.
C29_Pagination ==
    [][(last'.op = "ListTenantsPage" /\ last'.err = Nil)
       => LET r == last'.out
          IN /\ r.Page = IF r.reqPage < 1 THEN 1 ELSE r.reqPage
             /\ r.PageSize = IF r.reqPageSize < 1 THEN 20
                             ELSE IF r.reqPageSize > 100 THEN 100
                             ELSE r.reqPageSize
             /\ r.TotalPages * r.PageSize >= r.Total
             /\ r.TotalPages >= 0
             /\ r.TotalPages > 0 => (r.TotalPages - 1) * r.PageSize < r.Total
             /\ Len(r.Tenants) <= r.PageSize
             /\ r.Total <= Len(tenants)]_vars

\* C29 witness: the second page of size 2 of three tenants has just been
\* listed: one tenant, two pages in all.
C29_Witness ==
    /\ last.op = "ListTenantsPage"
    /\ last.err = Nil
    /\ last.out.reqPage = 2
    /\ last.out.reqPageSize = 2
    /\ last.out.Total = 3
    /\ last.out.TotalPages = 2
    /\ Len(last.out.Tenants) = 1


\* A step that is an Enable of a plugin whose factory key is not in the registry
\* returns an error and registers nothing.
EnableNeedsFactory ==
    /\ (last'.op = "TenantEnable" /\ ~Has(services, ServiceKeyTenantFactory))
          => last'.err # Nil /\ services' = services
    /\ (last'.op = "OUEnable" /\ ~Has(services, ServiceKeyOUFactory))
          => last'.err # Nil /\ services' = services

\* A step that is a HealthCheck of a tenant plugin no Enable of which has
\* returned nil returns an error.
HealthNeedsEnable ==
    (last'.op = "HealthCheck" /\ ~plugins.tenant[last'.instance].enabled)
       => last'.err # Nil

\* A step that is an Enable returning nil leaves the plugin's keys registered.
EnableRegisters ==
    /\ (last'.op = "TenantEnable" /\ last'.err = Nil) => Has(services', serviceKeyTenant)
    /\ (last'.op = "OUEnable" /\ last'.err = Nil)
          => /\ Has(services', serviceKeyOrganization)
             /\ Has(services', serviceKeyScopeResolver)

\* C30: a plugin is operational only after a successful Enable: Enable without
\* the plugin's factory in the registry fails and registers nothing (tenant and
\* OU), HealthCheck of a tenant plugin returns an error as long as no Enable of
\* it has succeeded, and a successful Enable leaves "tenant.service" (tenant) or
\* "ou.organization.service" and "datascope.resolver.ou" (OU) in the registry.
C30_OperationalAfterEnable ==
    [][EnableNeedsFactory /\ HealthNeedsEnable /\ EnableRegisters]_vars

\* The non-deleted membership rows of a user in a tenant
LiveRowsOf(tu, tenantID, userID) ==
    {i \in 1..Len(tu) : /\ tu[i].tenantID = tenantID
                        /\ tu[i].userID = userID
                        /\ ~tu[i].deleted}

\* C31: RemoveMember(T, U) for a tenant T in which U has no non-deleted
\* membership row returns an error, changes no membership row and no domain
\* membership and publishes no event; the error is ErrMemberNotFound unless
\* a storage call of the call (the membership query) itself failed.
C31_RemoveNotFound ==
    [][(/\ last'.op = "RemoveMember"
        /\ last'.tenantID \in 1..Len(tenants)
        /\ LiveRowsOf(tenantUsers, last'.tenantID, last'.userID) = {})
          => /\ last'.err # Nil
             /\ ~last'.failed => last'.err = ErrMemberNotFound
             /\ tenantUsers' = tenantUsers
             /\ domainMembers' = domainMembers
             /\ last'.events = <<>>]_vars

\* C31 witness: a RemoveMember of a user has just failed with
\* ErrMemberNotFound on a tenant in which the user has a soft-deleted
\* membership row, the one an earlier RemoveMember removed.
C31_Witness ==
    /\ last.op = "RemoveMember"
    /\ last.err = ErrMemberNotFound
    /\ last.tenantID \in 1..Len(tenants)
    /\ \E i \in 1..Len(tenantUsers) :
          /\ tenantUsers[i].tenantID = last.tenantID
          /\ tenantUsers[i].userID = last.userID
          /\ tenantUsers[i].deleted

\* C32: after a successful AddMember(T, U, role) U has a non-deleted active
\* membership row in T, and the role of every such row is the requested role
\* ("member" when none is given), the role the tenant.member.added event
\* carries; also when the call reactivates a removed membership.
C32_RoleAsRequested ==
    [][(last'.op = "AddMember" /\ last'.err = Nil)
          => LET rows == {i \in LiveRowsOf(tenantUsers', last'.tenantID, last'.userID) :
                             tenantUsers'[i].status = StatusActive}
             IN /\ rows # {}
                /\ \A i \in rows : tenantUsers'[i].role = last'.role]_vars

\* C33: after a successful DeleteTenant(T) every lookup reports T as not
\* found: GetTenant(T.id) and AddMember on T fail with ErrTenantNotFound, and
\* GetTenantByCode(T.code) fails with it or finds a later tenant of that code.
C33_DeletedNotFound ==
    [][(last'.op = "DeleteTenant" /\ last'.err = Nil)
          => LET id == last'.tenantID
             IN /\ GetTenant(After, id).err = ErrTenantNotFound
                /\ LET byCode == GetTenantByCode(After, tenants'[id].code)
                   IN byCode.err = Nil => byCode.dto.id # id
                /\ \A u \in MemberUsers :
                      AddMemberCall(After, TRUE, id, u, "", "none").err
                          = ErrTenantNotFound]_vars

\* C35: in every state, for every tenant whose domain resolves and every
\* user, IsMember answers true exactly when the user has a non-deleted active
\* membership row in the tenant.
C35_MemberIffRow ==
    \A t \in 1..Len(tenants), u \in MemberUsers :
        resolveDomainIDSafe(Current, tenants[t].code) # NilID
           => (IsMember(Current, t, u).ok
                  <=> \E i \in LiveRowsOf(tenantUsers, t, u) :
                         tenantUsers[i].status = StatusActive)

\* C36: directly after a successful CreateTenant by an acting user A,
\* IsMember of the new tenant is false for every user other than A, also when
\* an earlier CreateTenant for the same code failed part-way.
C36_OnlyOwnerIsMember ==
    [][(last'.op = "CreateTenant" /\ last'.err = Nil /\ last'.userID # NoUser)
          => \A u \in MemberUsers \ {last'.userID} :
                ~IsMember(After, last'.tenantID, u).ok]_vars

\* C37: an AddOrganizationMember call that returns an error leaves every
\* organization-membership row as it was; a failed call with isPrimary=true
\* does not clear the primary flag the user has.
C37_FailedAddChangesNothing ==
    [][(last'.op = "AddOrganizationMember" /\ last'.err # Nil)
          => orgMembers' = orgMembers]_vars

\* C38: while AddOrganizationMember calls with isPrimary=true for one user and
\* different organizations of a domain overlap, the reset of the primary rows
\* and the insert of each call taking effect on their own, no state has two
\* primary membership rows of the user in the domain.
C38_NoTwoPrimaries ==
    ~ \E i, j \in 1..Len(orgMembers) :
          /\ orgMembers[i].domainID = orgMembers[j].domainID
          /\ orgMembers[i].userID = orgMembers[j].userID
          /\ orgMembers[i].orgID # orgMembers[j].orgID
          /\ orgMembers[i].isPrimary
          /\ orgMembers[j].isPrimary

\* The tenant reached from id by following parentTenantID n times, NilID when
\* the chain ends before.
RECURSIVE ParentAfter(_, _, _)
ParentAfter(ts, id, n) ==
    IF n = 0 \/ id = NilID THEN id ELSE ParentAfter(ts, ts[id].parentID, n - 1)

\* C39: following parentTenantID from a tenant, over one step or more, never
\* comes back to that tenant.
C39_NoParentCycle ==
    \A t \in 1..Len(tenants), n \in 1..Len(tenants) : ParentAfter(tenants, t, n) # t

\* A stored string that is not empty and has no white space around it.
TrimmedNonEmpty(x) == x # <<>> /\ TrimSpace(x) = x

\* C40: after every CreateTenant and UpdateTenant every stored tenant has a
\* trimmed non-empty code and a trimmed non-empty name, an UpdateTenant with a
\* name of white space only included, and an UpdateTenant changes no tenant's
\* code.
C40_CodeAndNameKept ==
    [][/\ \A i \in 1..Len(tenants') :
             /\ TrimmedNonEmpty(tenants'[i].code)
             /\ TrimmedNonEmpty(tenants'[i].name)
       /\ last'.op = "UpdateTenant"
             => \A i \in 1..Len(tenants) : tenants'[i].code = tenants[i].code]_vars

====
